---------------------------- MODULE Spec2Model ----------------------------
(***************************************************************************)
(* Model of c_src/termbox_port.c: the single-connection session loop        *)
(* (run_main_loop), the command dispatcher (handle_client_command), the     *)
(* shadow buffer (update_shadow_buffer_size and the cache writes) and the   *)
(* event forwarder (send_event_to_client).                                  *)
(*                                                                          *)
(* Text is modelled at the byte level: a line, a token and a response are   *)
(* sequences of byte values 0..255.  The terminal backend (termbox) is an   *)
(* external library: the calls made to it are recorded in tb_log.           *)
(***************************************************************************)
EXTENDS Integers, Sequences, FiniteSets, TLC

(***************************************************************************)
(* Bytes and C strings                                                      *)
(***************************************************************************)

\* The printable ASCII characters, in code order starting at 32 (space); the
\* backquote (96), which a string literal cannot hold, is written by name.
Alphabet ==
    <<" ","!","\"","#","$","%","&","'","(",")","*","+",",","-",".","/",
      "0","1","2","3","4","5","6","7","8","9",":",";","<","=",">","?",
      "@","A","B","C","D","E","F","G","H","I","J","K","L","M","N","O",
      "P","Q","R","S","T","U","V","W","X","Y","Z","[","\\","]","^","_",
      "backquote","a","b","c","d","e","f","g","h","i","j","k","l","m","n","o",
      "p","q","r","s","t","u","v","w","x","y","z","{","|","}","~">>

\* The byte value of a printable character.
Ord(ch) == 31 + (CHOOSE i \in 1..Len(Alphabet) : Alphabet[i] = ch)

\* The bytes of a string literal, given as a tuple of its characters.
S(chars) == [i \in 1..Len(chars) |-> Ord(chars[i])]

NUL == S(<<" ">>)[1] - S(<<" ">>)[1]
SP  == Ord(" ")
LF  == SP - 22
CR  == SP - 19

Min(a, b) == IF a < b THEN a ELSE b

\* The index of the first occurrence of byte b in s at or after position
\* from, or 0 when there is none.
IndexFrom(s, b, from) ==
    LET hits == {i \in from..Len(s) : s[i] = b}
    IN  IF hits = {} THEN 0 ELSE CHOOSE i \in hits : \A j \in hits : i <= j

\* A char array read as a C string: the bytes before the first NUL.
CStr(s) ==
    LET z == IndexFrom(s, NUL, 1)
    IN  IF z = 0 THEN s ELSE SubSeq(s, 1, z - 1)

\* Concatenation of a sequence of byte sequences.
RECURSIVE Concat(_)
Concat(ss) == IF ss = <<>> THEN <<>> ELSE Head(ss) \o Concat(Tail(ss))

(***************************************************************************)
(* Integer widths and the C conversions atoi, strtoul, %d and %u            *)
(***************************************************************************)

Pow2(n) == 2 ^ n

\* (uint8_t)v and (uint16_t)v of an integer v.
U8(v)  == v % Pow2(8)
U16(v) == v % Pow2(16)

IsDigit(b) == b >= Ord("0") /\ b <= Ord("9")

\* isspace(b) for the bytes strtol skips: space, \t \n \v \f \r.
IsSpace(b) == b = SP \/ (b >= 9 /\ b <= 13)

\* The value of the longest run of decimal digits of s starting at i,
\* accumulated onto acc.
RECURSIVE DigitsFrom(_, _, _)
DigitsFrom(s, i, acc) ==
    IF i > Len(s) \/ ~IsDigit(s[i]) THEN acc
    ELSE DigitsFrom(s, i + 1, acc * 10 + (s[i] - Ord("0")))

\* The position of the first byte of s at or after i that is not white space.
RECURSIVE SkipSpace(_, _)
SkipSpace(s, i) ==
    IF i <= Len(s) /\ IsSpace(s[i]) THEN SkipSpace(s, i + 1) ELSE i

\* strtol(s, NULL, 10) on a token: white space, an optional sign, digits;
\* 0 when there is no digit.
StrToL(s) ==
    LET i    == SkipSpace(s, 1)
        neg  == i <= Len(s) /\ s[i] = Ord("-")
        sign == i <= Len(s) /\ (s[i] = Ord("-") \/ s[i] = Ord("+"))
        v    == DigitsFrom(s, IF sign THEN i + 1 ELSE i, 0)
    IN  IF neg THEN 0 - v ELSE v

\* atoi(s): (int)strtol(s, NULL, 10).  The tokens of the model stay inside
\* the 32-bit signed range (the range of the model checker's integers), on
\* which the conversion to int changes nothing.
Atoi(s) == StrToL(s)

\* (uint32_t)strtoul(s, NULL, 10), on tokens without a minus sign and below
\* 2^31, where neither strtoul nor the conversion wraps.
StrToUL32(s) == StrToL(s)

\* The decimal digits of a natural number (printf %u).
RECURSIVE FmtU(_)
FmtU(n) ==
    IF n < 10 THEN <<Ord("0") + n>>
    ELSE Append(FmtU(n \div 10), Ord("0") + (n % 10))

\* printf %d.
FmtD(n) == IF n < 0 THEN <<Ord("-")>> \o FmtU(0 - n) ELSE FmtU(n)

(***************************************************************************)
(* The UTF-8 conversions of the termbox library                             *)
(* (tb_utf8_char_to_unicode, tb_utf8_unicode_to_char).  The library is not  *)
(* part of this repository's sources: both follow the UTF-8 bit layout,     *)
(* the encoder is taken to leave a NUL-terminated string in its buffer.     *)
(***************************************************************************)

\* The sequence length announced by a lead byte; a byte that is no lead byte
\* (a continuation byte, 0xFE, 0xFF) counts as a sequence of one.
Utf8CharLength(b) ==
    IF b < 192 THEN 1
    ELSE IF b < 224 THEN 2
    ELSE IF b < 240 THEN 3
    ELSE IF b < 248 THEN 4
    ELSE IF b < 252 THEN 5
    ELSE IF b < 254 THEN 6
    ELSE 1

\* The payload bits of the lead byte of a sequence of len bytes (b & mask).
Utf8LeadBits(b, len) ==
    IF len = 1 THEN b % 128
    ELSE IF len = 2 THEN b % 32
    ELSE IF len = 3 THEN b % 16
    ELSE IF len = 4 THEN b % 8
    ELSE IF len = 5 THEN b % 4
    ELSE b % 2

\* The byte at position i of a zero-filled char array holding text.
ByteAt(text, i) == IF i >= 1 /\ i <= Len(text) THEN text[i] ELSE NUL

\* result <<= 6; result |= c[i] & 0x3f, for the continuation bytes
\* pos+1 .. pos+len-1.
RECURSIVE Utf8Accumulate(_, _, _, _)
Utf8Accumulate(text, pos, k, acc) ==
    IF k = 0 THEN acc
    ELSE Utf8Accumulate(text, pos + 1, k - 1, acc * 64 + (ByteAt(text, pos) % 64))

\* tb_utf8_char_to_unicode(&codepoint, text + pos - 1): the bytes consumed
\* and the code point decoded.
TbUtf8CharToUnicode(text, pos) ==
    LET b   == ByteAt(text, pos)
        len == Utf8CharLength(b)
    IN  [len |-> len,
         cp  |-> Utf8Accumulate(text, pos + 1, len - 1, Utf8LeadBits(b, len))]

\* The lead-byte marker of a sequence of len bytes.
Utf8First(len) ==
    IF len = 1 THEN 0
    ELSE IF len = 2 THEN 192
    ELSE IF len = 3 THEN 224
    ELSE IF len = 4 THEN 240
    ELSE IF len = 5 THEN 248
    ELSE 252

\* The number of bytes tb_utf8_unicode_to_char writes for code point c.
Utf8EncodedLength(c) ==
    IF c < 128 THEN 1
    ELSE IF c < 2048 THEN 2
    ELSE IF c < 65536 THEN 3
    ELSE IF c < 2097152 THEN 4
    ELSE IF c < 67108864 THEN 5
    ELSE 6

\* The continuation bytes of c, last byte last.
RECURSIVE Utf8Tail(_, _)
Utf8Tail(c, k) ==
    IF k = 0 THEN <<>>
    ELSE Append(Utf8Tail(c \div 64, k - 1), 128 + (c % 64))

\* tb_utf8_unicode_to_char(out, c): the bytes written to out.
TbUtf8UnicodeToChar(c) ==
    LET len == Utf8EncodedLength(c)
    IN  <<Utf8First(len) + (c \div (64 ^ (len - 1)))>> \o Utf8Tail(c, len - 1)

(***************************************************************************)
(* Program constants and protocol strings                                   *)
(***************************************************************************)

MAX_ARGS == 10
SOCKET_BUFFER_SIZE == 4096
MAX_EVENT_STR_SIZE == 256

\* termbox.h
TB_DEFAULT == 0
TB_EVENT_KEY == 1
TB_EVENT_RESIZE == 2

Cmd_present == S(<<"p","r","e","s","e","n","t">>)
Cmd_clear == S(<<"c","l","e","a","r">>)
Cmd_print == S(<<"p","r","i","n","t">>)
Cmd_change_cell == S(<<"c","h","a","n","g","e","_","c","e","l","l">>)
Cmd_get_cell == S(<<"g","e","t","_","c","e","l","l">>)
Cmd_width == S(<<"w","i","d","t","h">>)
Cmd_height == S(<<"h","e","i","g","h","t">>)
Cmd_set_cursor == S(<<"s","e","t","_","c","u","r","s","o","r">>)
Cmd_set_input_mode == S(<<"s","e","t","_","i","n","p","u","t","_","m","o","d","e">>)
Cmd_set_output_mode == S(<<"s","e","t","_","o","u","t","p","u","t","_","m","o","d","e">>)
Cmd_set_clear_attributes == S(<<"s","e","t","_","c","l","e","a","r","_","a","t","t","r","i","b","u","t","e","s">>)
Cmd_DEBUG_SEND_EVENT == S(<<"D","E","B","U","G","_","S","E","N","D","_","E","V","E","N","T">>)
Cmd_shutdown == S(<<"s","h","u","t","d","o","w","n">>)

\* The response lines.
Line_OK == S(<<"O","K">>)
Line_invalid_args_present == S(<<"E","R","R","O","R"," ","i","n","v","a","l","i","d","_","a","r","g","s","_","p","r","e","s","e","n","t">>)
Line_invalid_args_clear == S(<<"E","R","R","O","R"," ","i","n","v","a","l","i","d","_","a","r","g","s","_","c","l","e","a","r">>)
Line_invalid_args_print == S(<<"E","R","R","O","R"," ","i","n","v","a","l","i","d","_","a","r","g","s","_","p","r","i","n","t">>)
Line_invalid_args_change_cell == S(<<"E","R","R","O","R"," ","i","n","v","a","l","i","d","_","a","r","g","s","_","c","h","a","n","g","e","_","c","e","l","l">>)
Line_invalid_args_get_cell == S(<<"E","R","R","O","R"," ","i","n","v","a","l","i","d","_","a","r","g","s","_","g","e","t","_","c","e","l","l">>)
Line_invalid_args_width == S(<<"E","R","R","O","R"," ","i","n","v","a","l","i","d","_","a","r","g","s","_","w","i","d","t","h">>)
Line_invalid_args_height == S(<<"E","R","R","O","R"," ","i","n","v","a","l","i","d","_","a","r","g","s","_","h","e","i","g","h","t">>)
Line_invalid_args_set_cursor == S(<<"E","R","R","O","R"," ","i","n","v","a","l","i","d","_","a","r","g","s","_","s","e","t","_","c","u","r","s","o","r">>)
Line_invalid_args_set_input_mode == S(<<"E","R","R","O","R"," ","i","n","v","a","l","i","d","_","a","r","g","s","_","s","e","t","_","i","n","p","u","t","_","m","o","d","e">>)
Line_invalid_args_set_output_mode == S(<<"E","R","R","O","R"," ","i","n","v","a","l","i","d","_","a","r","g","s","_","s","e","t","_","o","u","t","p","u","t","_","m","o","d","e">>)
Line_invalid_args_set_clear_attributes == S(<<"E","R","R","O","R"," ","i","n","v","a","l","i","d","_","a","r","g","s","_","s","e","t","_","c","l","e","a","r","_","a","t","t","r","i","b","u","t","e","s">>)
Line_invalid_args_debug_send_event == S(<<"E","R","R","O","R"," ","i","n","v","a","l","i","d","_","a","r","g","s","_","d","e","b","u","g","_","s","e","n","d","_","e","v","e","n","t">>)
Line_text_too_long_print == S(<<"E","R","R","O","R"," ","t","e","x","t","_","t","o","o","_","l","o","n","g","_","p","r","i","n","t">>)
Line_invalid_coords_get_cell == S(<<"E","R","R","O","R"," ","i","n","v","a","l","i","d","_","c","o","o","r","d","s","_","g","e","t","_","c","e","l","l">>)
Line_tb_select_input_mode_failed == S(<<"E","R","R","O","R"," ","t","b","_","s","e","l","e","c","t","_","i","n","p","u","t","_","m","o","d","e","_","f","a","i","l","e","d">>)
Line_tb_select_output_mode_failed == S(<<"E","R","R","O","R"," ","t","b","_","s","e","l","e","c","t","_","o","u","t","p","u","t","_","m","o","d","e","_","f","a","i","l","e","d">>)
Line_unknown_command == S(<<"E","R","R","O","R"," ","u","n","k","n","o","w","n","_","c","o","m","m","a","n","d">>)
Txt_OK_CELL == S(<<"O","K","_","C","E","L","L"," ">>)
Txt_OK_WIDTH == S(<<"O","K","_","W","I","D","T","H"," ">>)
Txt_OK_HEIGHT == S(<<"O","K","_","H","E","I","G","H","T"," ">>)
Txt_EVENT_type == S(<<"E","V","E","N","T"," ","{","\"","t","y","p","e","\"",":">>)
Txt_mod == S(<<","," ","\"","m","o","d","\"",":">>)
Txt_key == S(<<","," ","\"","k","e","y","\"",":">>)
Txt_ch == S(<<","," ","\"","c","h","\"",":">>)
Txt_w == S(<<","," ","\"","w","\"",":">>)
Txt_h == S(<<","," ","\"","h","\"",":">>)
Txt_x == S(<<","," ","\"","x","\"",":">>)
Txt_y == S(<<","," ","\"","y","\"",":">>)
Txt_close == S(<<"}">>)
Txt_OK_sp == S(<<"O","K"," ">>)
Line_error_socket_create_failed == S(<<"e","r","r","o","r"," ","s","o","c","k","e","t","_","c","r","e","a","t","e","_","f","a","i","l","e","d">>)
Line_error_socket_bind_failed == S(<<"e","r","r","o","r"," ","s","o","c","k","e","t","_","b","i","n","d","_","f","a","i","l","e","d">>)
Line_error_socket_listen_failed == S(<<"e","r","r","o","r"," ","s","o","c","k","e","t","_","l","i","s","t","e","n","_","f","a","i","l","e","d">>)
BootErrorLine(r) ==
    CASE r = "socket_create_failed" -> Line_error_socket_create_failed
      [] r = "socket_bind_failed" -> Line_error_socket_bind_failed
      [] r = "socket_listen_failed" -> Line_error_socket_listen_failed
Txt_question == S(<<"?">>)

(***************************************************************************)
(* The shadow buffer                                                        *)
(***************************************************************************)

\* A null shadow_buffer pointer: no cell storage.
NULL == <<>>

\* struct tb_cell.
Cell(ch, fg, bg) == [ch |-> ch, fg |-> fg, bg |-> bg]

\* The cell written by the initialisation loop and by clear.
DefaultCell == Cell(SP, TB_DEFAULT, TB_DEFAULT)

\* The storage malloc returns for width * height cells, after the
\* initialisation loop: indices 0 .. width*height - 1.
FreshBuffer(width, height) == [i \in 0..(width * height - 1) |-> DefaultCell]

\* A variant of the resize that keeps the new dimensions when the
\* allocation fails.
UpdateShadowBufferSize_keeping(width, height, malloc_ok) ==
    IF width <= 0 \/ height <= 0
    THEN [buf |-> NULL, w |-> 0, h |-> 0]
    ELSE IF ~malloc_ok
    THEN [buf |-> NULL, w |-> width, h |-> height]
    ELSE [buf |-> FreshBuffer(width, height), w |-> width, h |-> height]

\* update_shadow_buffer_size(width, height): the new shadow_buffer,
\* shadow_buffer_width and shadow_buffer_height.  malloc_ok tells whether the
\* allocation succeeds.
UpdateShadowBufferSize(width, height, malloc_ok) ==
    IF width <= 0 \/ height <= 0
    THEN [buf |-> NULL, w |-> 0, h |-> 0]
    ELSE IF ~malloc_ok
    THEN [buf |-> NULL, w |-> 0, h |-> 0]
    ELSE [buf |-> FreshBuffer(width, height), w |-> width, h |-> height]

\* The bounds test guarding every cache access.
\* A variant of the bounds test that takes the first row for outside.
InShadow_rowless(buf, w, h, x, y) ==
    buf # NULL /\ x >= 0 /\ x < w /\ y > 0 /\ y < h

InShadow(buf, w, h, x, y) ==
    buf # NULL /\ x >= 0 /\ x < w /\ y >= 0 /\ y < h

\* index = (size_t)y * shadow_buffer_width + x.
ShadowIndex(w, x, y) == y * w + x

\* The cache mirror write of change_cell and print: skipped out of bounds.
ShadowWrite(buf, w, h, x, y, cell) ==
    IF InShadow(buf, w, h, x, y)
    THEN [buf EXCEPT ![ShadowIndex(w, x, y)] = cell]
    ELSE buf

\* A variant of clear that leaves the shadow buffer as it is.
ShadowClear_forgotten(buf, w, h) == buf

\* The cache update of clear: every cell of a non-empty cache reset.
ShadowClear(buf, w, h) ==
    IF buf # NULL /\ w > 0 /\ h > 0
    THEN [i \in DOMAIN buf |->
            IF \E y \in 0..(h - 1), x \in 0..(w - 1) : ShadowIndex(w, x, y) = i
            THEN DefaultCell ELSE buf[i]]
    ELSE buf

(***************************************************************************)
(* The socket writers                                                       *)
(***************************************************************************)

\* A write made on the client socket: the bytes handed to write_exact and
\* whether the write succeeded.
Written(bytes, ok) == [bytes |-> bytes, ok |-> ok]

\* write_socket_line(fd, line): the writes it makes.  An empty line writes
\* nothing; otherwise the line and a newline go out in one write_exact.
WriteSocketLine(line, wok) ==
    IF Len(CStr(line)) = 0 THEN <<>>
    ELSE <<Written(CStr(line) \o <<LF>>, wok)>>

\* struct tb_event.
Event(type, mod, key, ch, w, h, x, y) ==
    [type |-> type, mod |-> mod, key |-> key, ch |-> ch,
     w |-> w, h |-> h, x |-> x, y |-> y]

\* A variant of the event format with x and y exchanged.
EventStr_swapped(ev) ==
    LET full == Txt_EVENT_type \o FmtU(ev.type) \o Txt_mod \o FmtU(ev.mod)
                \o Txt_key \o FmtU(ev.key) \o Txt_ch \o FmtU(ev.ch)
                \o Txt_w \o FmtD(ev.w) \o Txt_h \o FmtD(ev.h)
                \o Txt_x \o FmtD(ev.y) \o Txt_y \o FmtD(ev.x) \o Txt_close
    IN  SubSeq(full, 1, Min(Len(full), MAX_EVENT_STR_SIZE - 1))

\* The event string snprintf builds in send_event_to_client.
EventStr(ev) ==
    LET full == Txt_EVENT_type \o FmtU(ev.type) \o Txt_mod \o FmtU(ev.mod)
                \o Txt_key \o FmtU(ev.key) \o Txt_ch \o FmtU(ev.ch)
                \o Txt_w \o FmtD(ev.w) \o Txt_h \o FmtD(ev.h)
                \o Txt_x \o FmtD(ev.x) \o Txt_y \o FmtD(ev.y) \o Txt_close
    IN  SubSeq(full, 1, Min(Len(full), MAX_EVENT_STR_SIZE - 1))

\* A variant of the event forwarder that writes nothing.
SendEventToClient_silent(ev, wok) == <<>>

\* send_event_to_client(fd, ev): the writes it makes; a failed write is only
\* logged.
SendEventToClient(ev, wok) == WriteSocketLine(EventStr(ev), wok)

(***************************************************************************)
(* handle_client_command                                                    *)
(***************************************************************************)

\* The line after the trailing carriage return is removed, read as a C
\* string.
StripCR(line) ==
    LET len == Len(line)
    IN  CStr(IF len > 0 /\ line[len] = CR THEN SubSeq(line, 1, len - 1) ELSE line)

\* strtok(s, " ") repeated to the end of the string: the maximal runs of
\* bytes other than a space, in order.
RECURSIVE StrTok(_, _)
StrTok(s, i) ==
    IF i > Len(s) THEN <<>>
    ELSE IF s[i] = SP THEN StrTok(s, i + 1)
    ELSE LET sp  == IndexFrom(s, SP, i)
             end == IF sp = 0 THEN Len(s) + 1 ELSE sp
         IN  <<SubSeq(s, i, end - 1)>> \o StrTok(s, end + 1)

\* The args array filled by the tokenizer loop: at most MAX_ARGS tokens.
ParseArgs(line) ==
    LET toks == StrTok(StripCR(line), 1)
    IN  SubSeq(toks, 1, Min(Len(toks), MAX_ARGS))

\* The text part of print rebuilt in text_buffer from args[5] onwards
\* (args[i + 1] here), joined by single spaces; overflow when the next
\* token would not fit.
RECURSIVE PrintText(_, _, _)
PrintText(args, i, acc) ==
    IF i >= Len(args) THEN [overflow |-> FALSE, text |-> acc]
    ELSE LET arg == args[i + 1]
             sep == IF i > 5 THEN 1 ELSE 0
         IN  IF Len(acc) + Len(arg) + sep >= SOCKET_BUFFER_SIZE
             THEN [overflow |-> TRUE, text |-> acc]
             ELSE PrintText(args, i + 1,
                            acc \o (IF i > 5 THEN <<SP>> ELSE <<>>) \o arg)

\* A backend call.
TbChangeCell(x, y, ch, fg, bg) == <<"tb_change_cell", x, y, ch, fg, bg>>

\* The print loop: from byte pos of text and column current_x, the backend
\* calls made and the shadow buffer left.
RECURSIVE PrintLoop(_, _, _, _, _, _, _, _, _, _)
PrintLoop(text, pos, current_x, y, fg, bg, buf, w, h, calls) ==
    IF ByteAt(text, pos) = NUL THEN [buf |-> buf, calls |-> calls]
    ELSE LET d == TbUtf8CharToUnicode(text, pos)
         IN  IF d.cp = 0 THEN [buf |-> buf, calls |-> calls]
             ELSE PrintLoop(text, pos + d.len, current_x + 1, y, fg, bg,
                            ShadowWrite(buf, w, h, current_x, y, Cell(d.cp, fg, bg)),
                            w, h,
                            Append(calls, TbChangeCell(current_x, y, d.cp, fg, bg)))

\* The text get_cell sends for a cell's code point: the encoder's bytes read
\* back as a C string by %s, or "?" when the encoder reports no byte.
CellText(ch) ==
    LET bytes == TbUtf8UnicodeToChar(ch)
    IN  IF Len(bytes) <= 0 THEN Txt_question ELSE CStr(bytes)

\* The response get_cell formats for an in-bounds cell:
\* "OK_CELL %d %d %s %u %u".
OkCellLine(x, y, cell) ==
    Txt_OK_CELL \o FmtD(x) \o <<SP>> \o FmtD(y) \o <<SP>> \o CellText(cell.ch)
    \o <<SP>> \o FmtU(cell.fg) \o <<SP>> \o FmtU(cell.bg)

\* What one call of handle_client_command does: its return value, the
\* writes on the socket, the backend calls and the shadow buffer left.
Result(ret, out, calls, buf) ==
    [ret |-> ret, out |-> out, calls |-> calls, buf |-> buf]

\* A success response: a failed write returns 1.
Respond(line, wok, calls, buf) ==
    Result(IF wok THEN 0 ELSE 1, WriteSocketLine(line, wok), calls, buf)

\* A variant of the error response that drops the shadow buffer.
RespondError_wiping(line, wok, buf) ==
    Result(0, WriteSocketLine(line, wok), <<>>, NULL)

\* A variant of the error response that ends the session.
RespondError_fatal(line, wok, buf) ==
    Result(1, WriteSocketLine(line, wok), <<>>, buf)

\* An error response: the result of the write is not looked at.
RespondError(line, wok, buf) ==
    Result(0, WriteSocketLine(line, wok), <<>>, buf)

\* A variant of the comparison that stops at the end of the verb, as
\* strncmp(cmd, verb, strlen(verb)) == 0 would.
StrEq_prefix(cmd, verb) ==
    Len(cmd) >= Len(verb) /\ SubSeq(cmd, 1, Len(verb)) = verb

\* strcmp(cmd, verb) == 0.
StrEq(cmd, verb) == cmd = verb

\* A variant of the debug command that takes a resize event of its own for
\* a polled one and allocates new storage of the event's size.
DebugSendEvent_resizing(ev, wok, buf) ==
    Result(0, SendEventToClient(ev, wok), <<>>,
           IF ev.type = TB_EVENT_RESIZE
           THEN UpdateShadowBufferSize(ev.w, ev.h, TRUE).buf ELSE buf)

\* The DEBUG_SEND_EVENT branch once debug_event is filled: the event is
\* sent, no response line follows, the shadow buffer is not touched.
DebugSendEvent(ev, wok, buf) ==
    Result(0, SendEventToClient(ev, wok), <<>>, buf)

\* handle_client_command(client_fd, command_line, len) on the shadow buffer
\* (buf, w, h).  wok: whether a write on the socket succeeds; tb: what the
\* backend returns (mode: tb_select_input_mode / tb_select_output_mode,
\* width: tb_width, height: tb_height).
HandleClientCommand(line, buf, w, h, wok, tb) ==
    LET args == ParseArgs(line)
        argc == Len(args)
        cmd  == args[1]
    IN  IF argc = 0 THEN Result(0, <<>>, <<>>, buf)
        ELSE IF StrEq(cmd, Cmd_present) THEN
            IF argc = 1
            THEN Respond(Line_OK, wok, <<(<<"tb_present">>)>>, buf)
            ELSE RespondError(Line_invalid_args_present, wok, buf)
        ELSE IF StrEq(cmd, Cmd_clear) THEN
            IF argc = 1
            THEN Respond(Line_OK, wok, <<(<<"tb_clear">>)>>, ShadowClear(buf, w, h))
            ELSE RespondError(Line_invalid_args_clear, wok, buf)
        ELSE IF StrEq(cmd, Cmd_print) THEN
            IF argc >= 6
            THEN LET x  == Atoi(args[2])
                     y  == Atoi(args[3])
                     fg == U16(Atoi(args[4]))
                     bg == U16(Atoi(args[5]))
                     t  == PrintText(args, 5, <<>>)
                     p  == PrintLoop(t.text, 1, x, y, fg, bg, buf, w, h, <<>>)
                 IN  IF t.overflow
                     THEN RespondError(Line_text_too_long_print, wok, buf)
                     ELSE Respond(Line_OK, wok, p.calls, p.buf)
            ELSE RespondError(Line_invalid_args_print, wok, buf)
        ELSE IF StrEq(cmd, Cmd_change_cell) THEN
            IF argc = 6
            THEN LET x  == Atoi(args[2])
                     y  == Atoi(args[3])
                     ch == StrToUL32(args[4])
                     fg == U16(Atoi(args[5]))
                     bg == U16(Atoi(args[6]))
                 IN  Respond(Line_OK, wok, <<TbChangeCell(x, y, ch, fg, bg)>>,
                             ShadowWrite(buf, w, h, x, y, Cell(ch, fg, bg)))
            ELSE RespondError(Line_invalid_args_change_cell, wok, buf)
        ELSE IF StrEq(cmd, Cmd_get_cell) THEN
            IF argc = 3
            THEN LET x == Atoi(args[2])
                     y == Atoi(args[3])
                 IN  IF ~InShadow(buf, w, h, x, y)
                     THEN RespondError(Line_invalid_coords_get_cell, wok, buf)
                     ELSE Respond(OkCellLine(x, y, buf[ShadowIndex(w, x, y)]),
                                  wok, <<>>, buf)
            ELSE RespondError(Line_invalid_args_get_cell, wok, buf)
        ELSE IF StrEq(cmd, Cmd_width) THEN
            IF argc = 1
            THEN Respond(Txt_OK_WIDTH \o FmtD(tb.width), wok, <<(<<"tb_width">>)>>, buf)
            ELSE RespondError(Line_invalid_args_width, wok, buf)
        ELSE IF StrEq(cmd, Cmd_height) THEN
            IF argc = 1
            THEN Respond(Txt_OK_HEIGHT \o FmtD(tb.height), wok, <<(<<"tb_height">>)>>, buf)
            ELSE RespondError(Line_invalid_args_height, wok, buf)
        ELSE IF StrEq(cmd, Cmd_set_cursor) THEN
            IF argc = 3
            THEN Respond(Line_OK, wok,
                         <<(<<"tb_set_cursor", Atoi(args[2]), Atoi(args[3])>>)>>, buf)
            ELSE RespondError(Line_invalid_args_set_cursor, wok, buf)
        ELSE IF StrEq(cmd, Cmd_set_input_mode) THEN
            IF argc = 2
            THEN LET call == <<"tb_select_input_mode", Atoi(args[2])>>
                 IN  IF tb.mode < 0
                     THEN [RespondError(Line_tb_select_input_mode_failed, wok, buf)
                             EXCEPT !.calls = <<call>>]
                     ELSE Respond(Line_OK, wok, <<call>>, buf)
            ELSE RespondError(Line_invalid_args_set_input_mode, wok, buf)
        ELSE IF StrEq(cmd, Cmd_set_output_mode) THEN
            IF argc = 2
            THEN LET call == <<"tb_select_output_mode", Atoi(args[2])>>
                 IN  IF tb.mode < 0
                     THEN [RespondError(Line_tb_select_output_mode_failed, wok, buf)
                             EXCEPT !.calls = <<call>>]
                     ELSE Respond(Line_OK, wok, <<call>>, buf)
            ELSE RespondError(Line_invalid_args_set_output_mode, wok, buf)
        ELSE IF StrEq(cmd, Cmd_set_clear_attributes) THEN
            IF argc = 3
            THEN Respond(Line_OK, wok,
                         <<(<<"tb_set_clear_attributes",
                              U16(Atoi(args[2])), U16(Atoi(args[3]))>>)>>, buf)
            ELSE RespondError(Line_invalid_args_set_clear_attributes, wok, buf)
        ELSE IF StrEq(cmd, Cmd_DEBUG_SEND_EVENT) THEN
            IF argc = 9
            THEN LET ev == Event(U8(Atoi(args[2])), U8(Atoi(args[3])),
                                 U16(Atoi(args[4])), StrToUL32(args[5]),
                                 Atoi(args[6]), Atoi(args[7]),
                                 Atoi(args[8]), Atoi(args[9]))
                 IN  DebugSendEvent(ev, wok, buf)
            ELSE RespondError(Line_invalid_args_debug_send_event, wok, buf)
        ELSE IF StrEq(cmd, Cmd_shutdown) THEN
            Result(1, WriteSocketLine(Line_OK, wok), <<>>, buf)
        ELSE RespondError(Line_unknown_command, wok, buf)

(***************************************************************************)
(* The session: run_main_loop                                               *)
(***************************************************************************)

VARIABLES
    pc,                    \* where the process is: boot, accept, peek, select, read,
                           \* lines, cleanup, exited
    client_socket_fd,      \* the global: -1, or the accepted descriptor (1)
    conn_up,               \* environment: writes on the connection still succeed
    sock_in,               \* environment: bytes of the client not yet read
    socket_buffer,         \* socket_buffer[0 .. buffer_pos-1]
    line_start,            \* line_start - socket_buffer, counted from 1
    keep_running,
    loop_exit_status,
    peek_ret,              \* what tb_peek_event returned in this iteration
    event,                 \* the struct tb_event it filled
    shadow_buffer,
    shadow_buffer_width,
    shadow_buffer_height,
    tb_size,               \* backend: <<tb_width(), tb_height()>>
    tb_log,                \* backend: the calls made to it, in order
    sock_out,              \* the writes made on the connection, in order
    exit_code,             \* what main returns; -1 while running
    n_events,              \* history: events polled so far
    dispatched,            \* history: the lines handed to handle_client_command
    iter_mark,             \* history: Len(sock_out) when the iteration began
    std_out,               \* the lines main wrote on standard output
    std_err,               \* the error <reason> lines main wrote on standard error
    fd_log,                \* the descriptor calls made: socket, accept, close
    received,              \* history: all the bytes read() returned so far
    exit_cause,            \* history: what last set the exit status of the loop
    read_split,            \* environment: where a read() may end, "lines" or "bytes"
    resize_mark            \* history: Len(tb_log) when the shadow buffer was last resized

vars == <<pc, client_socket_fd, conn_up, sock_in, socket_buffer, line_start,
          keep_running, loop_exit_status, peek_ret, event, shadow_buffer,
          shadow_buffer_width, shadow_buffer_height, tb_size, tb_log,
          sock_out, exit_code, n_events, dispatched, iter_mark, std_out,
          std_err, fd_log, received, exit_cause, read_split, resize_mark>>

\* Bounds of the model.
MaxLines == 2
MaxEvents == 2
MaxW == 2
MaxH == 2

buffer_pos == Len(socket_buffer)

\* The events tb_peek_event can deliver: a key press, and a resize to an
\* empty or to the full size.
KeyEvent == Event(TB_EVENT_KEY, 0, 0, Ord("a"), 0, 0, 0, 0)
ResizeEvent(w, h) == Event(TB_EVENT_RESIZE, 0, 0, 0, w, h, 0, 0)
PollEvents == {KeyEvent} \cup {ResizeEvent(w, MaxH) : w \in {0, MaxW}}
NoEvent == Event(0, 0, 0, 0, 0, 0, 0, 0)

\* All byte streams a client can send: at most MaxLines lines of the pool,
\* each ended by a newline.
RECURSIVE Scripts(_, _)
Scripts(pool, n) ==
    IF n = 0 THEN {<<>>}
    ELSE LET shorter == Scripts(pool, n - 1)
         IN  shorter \cup {l \o <<LF>> \o s : l \in pool, s \in shorter}

\* The state when main starts, for a client that will send one of the byte
\* streams of scripts over a transport that ends each read() as one of
\* splits says.
InitOf(scripts, splits) ==
    /\ pc = "boot"
    /\ read_split \in splits
    /\ resize_mark = 0
    /\ std_out = <<>>
    /\ std_err = <<>>
    /\ fd_log = <<>>
    /\ received = <<>>
    /\ exit_cause = "none"
    /\ client_socket_fd = -1
    /\ conn_up = TRUE
    /\ sock_in \in scripts
    /\ socket_buffer = <<>>
    /\ line_start = 1
    /\ keep_running = TRUE
    /\ loop_exit_status = 1
    /\ peek_ret = 0
    /\ event = NoEvent
    /\ shadow_buffer = NULL
    /\ shadow_buffer_width = 0
    /\ shadow_buffer_height = 0
    /\ tb_size = <<MaxW, MaxH>>
    /\ tb_log = <<>>
    /\ sock_out = <<>>
    /\ exit_code = -1
    /\ n_events = 0
    /\ dispatched = <<>>
    /\ iter_mark = 0

\* The same for a transport that ends a read() at the end of a line or of
\* the data in flight.
InitWith(scripts) == InitOf(scripts, {"lines"})

\* The outcomes of a write on the connection: once one failed, all fail.
WriteOutcomes == IF conn_up THEN {TRUE, FALSE} ELSE {FALSE}

\* The connection after the writes out were made with outcome wok.
ConnAfter(out, wok) == IF out = <<>> THEN conn_up ELSE wok

\* getpid() of the process.
Pid == 1

\* actual_socket_path: "/tmp/termbox_port_%d.sock" with the process id.
SocketPath ==
    S(<<"/","t","m","p","/","t","e","r","m","b","o","x","_","p","o","r","t","_">>)
    \o FmtD(Pid) \o S(<<".","s","o","c","k">>)

\* main up to the call of run_main_loop: socket(), bind(), listen().  A
\* failure is reported with fprintf(stderr, ...) and main returns 1; after
\* listen() succeeded the path goes out on standard output.
Bootstrap ==
    /\ pc = "boot"
    /\ \E r \in {"ok", "socket_create_failed", "socket_bind_failed",
                  "socket_listen_failed"} :
         IF r = "ok"
         THEN /\ fd_log' = Append(fd_log, <<"socket">>)
              /\ std_out' = Append(std_out, Txt_OK_sp \o SocketPath)
              /\ pc' = "accept"
              /\ UNCHANGED <<std_err, exit_code, exit_cause>>
         ELSE /\ fd_log' = IF r = "socket_create_failed" THEN fd_log
                           ELSE fd_log \o <<(<<"socket">>), (<<"close", "listen">>)>>
              /\ std_err' = Append(std_err, BootErrorLine(r))
              /\ pc' = "exited"
              /\ exit_code' = 1
              /\ exit_cause' = r
              /\ UNCHANGED std_out
    /\ UNCHANGED <<read_split, resize_mark>>
    /\ UNCHANGED <<client_socket_fd, conn_up, sock_in, socket_buffer, line_start,
                   keep_running, loop_exit_status, peek_ret, event, shadow_buffer,
                   shadow_buffer_width, shadow_buffer_height, tb_size, tb_log,
                   sock_out, n_events, dispatched, iter_mark, received>>

\* accept() and the two fcntl() calls setting the socket non-blocking.
Accept ==
    /\ pc = "accept"
    /\ \E r \in {"ok", "accept_failed", "fcntl_failed"} :
         IF r = "ok"
         THEN /\ client_socket_fd' = 1
              /\ fd_log' = Append(fd_log, <<"accept">>)
              /\ pc' = "peek"
              /\ UNCHANGED <<exit_code, exit_cause>>
         ELSE /\ client_socket_fd' = -1
              /\ fd_log' = IF r = "fcntl_failed"
                           THEN fd_log \o <<(<<"accept">>), (<<"close", "client">>)>>
                           ELSE fd_log
              /\ pc' = "exited"
              /\ exit_code' = 1
              /\ exit_cause' = r
    /\ UNCHANGED <<read_split, resize_mark>>
    /\ UNCHANGED <<conn_up, sock_in, socket_buffer, line_start, keep_running,
                   loop_exit_status, peek_ret, event, shadow_buffer,
                   shadow_buffer_width, shadow_buffer_height, tb_size, tb_log,
                   sock_out, n_events, dispatched, iter_mark, std_out, std_err,
                   received>>

\* What tb_peek_event can return: nothing (0), an error (-1), or an event (1).
PeekResults ==
    {[ret |-> 0, ev |-> NoEvent], [ret |-> -1, ev |-> NoEvent]}
    \cup (IF n_events < MaxEvents
          THEN {[ret |-> 1, ev |-> e] : e \in PollEvents} ELSE {})

\* Step 1 of an iteration: the event peek, the resize of the shadow buffer
\* and the forwarding of the event.
PeekEvent ==
    /\ pc = "peek"
    /\ \E p \in PeekResults, malloc_ok \in BOOLEAN, wok \in WriteOutcomes :
         LET resize == p.ret > 0 /\ p.ev.type = TB_EVENT_RESIZE
             sb  == IF resize
                    THEN UpdateShadowBufferSize(p.ev.w, p.ev.h, malloc_ok)
                    ELSE [buf |-> shadow_buffer, w |-> shadow_buffer_width,
                          h |-> shadow_buffer_height]
             out == IF p.ret > 0 THEN SendEventToClient(p.ev, wok) ELSE <<>>
         IN  /\ peek_ret' = p.ret
             /\ event' = p.ev
             /\ n_events' = IF p.ret > 0 THEN n_events + 1 ELSE n_events
             /\ shadow_buffer' = sb.buf
             /\ shadow_buffer_width' = sb.w
             /\ shadow_buffer_height' = sb.h
             /\ tb_size' = IF resize THEN <<p.ev.w, p.ev.h>> ELSE tb_size
             /\ resize_mark' = IF resize THEN Len(tb_log) ELSE resize_mark
             /\ iter_mark' = Len(sock_out)
             /\ sock_out' = sock_out \o out
             /\ conn_up' = ConnAfter(out, wok)
    /\ pc' = "select"
    /\ UNCHANGED read_split
    /\ UNCHANGED <<client_socket_fd, sock_in, socket_buffer, line_start,
                   keep_running, loop_exit_status, tb_log, exit_code,
                   dispatched, std_out, std_err, fd_log, received, exit_cause>>

\* Step 2: select() with a zero timeout.  After an error other than EINTR
\* the descriptor set is as FD_SET left it, so step 3 still runs.
Select ==
    /\ pc = "select"
    /\ \E activity \in {"eintr", "error", "none", "ready"} :
         /\ pc' = IF activity \in {"eintr", "none"} THEN "peek" ELSE "read"
         /\ keep_running' = IF activity = "error" THEN FALSE ELSE keep_running
         /\ loop_exit_status' = IF activity = "error" THEN 1 ELSE loop_exit_status
         /\ exit_cause' = IF activity = "error" THEN "select_error" ELSE exit_cause
    /\ UNCHANGED <<read_split, resize_mark>>
    /\ UNCHANGED <<client_socket_fd, conn_up, sock_in, socket_buffer, line_start,
                   peek_ret, event, shadow_buffer, shadow_buffer_width,
                   shadow_buffer_height, tb_size, tb_log, sock_out, exit_code,
                   n_events, dispatched, iter_mark, std_out, std_err, fd_log,
                   received>>

\* The byte counts one read() may return when avail bytes are in flight and
\* the buffer has room for cap: everything, or up to the end of the first
\* line, or, over a transport that splits anywhere, any count.
ReadSizes(avail, cap) ==
    LET most == Min(avail, cap)
    IN  IF read_split = "bytes" THEN 1..most
        ELSE {n \in {most, IndexFrom(sock_in, LF, 1)} : n >= 1 /\ n <= most}

\* Step 3: read() into socket_buffer + buffer_pos.
Read ==
    /\ pc = "read"
    /\ LET cap == SOCKET_BUFFER_SIZE - 1 - buffer_pos
       IN  \/ \* bytes_read < 0 with EINTR: continue
              /\ pc' = IF keep_running THEN "peek" ELSE "cleanup"
              /\ UNCHANGED <<keep_running, loop_exit_status, sock_in,
                             socket_buffer, line_start, received, exit_cause>>
           \/ \* bytes_read < 0
              /\ keep_running' = FALSE
              /\ loop_exit_status' = 1
              /\ exit_cause' = "read_error"
              /\ pc' = "cleanup"
              /\ UNCHANGED <<sock_in, socket_buffer, line_start, received>>
           \/ \* bytes_read == 0: the peer closed (or no room was asked for)
              /\ sock_in = <<>> \/ cap = 0
              /\ keep_running' = FALSE
              /\ loop_exit_status' = 0
              /\ exit_cause' = "peer_close"
              /\ pc' = "cleanup"
              /\ UNCHANGED <<sock_in, socket_buffer, line_start, received>>
           \/ \* bytes_read > 0
              \E n \in ReadSizes(Len(sock_in), cap) :
                /\ socket_buffer' = socket_buffer \o SubSeq(sock_in, 1, n)
                /\ sock_in' = SubSeq(sock_in, n + 1, Len(sock_in))
                /\ received' = received \o SubSeq(sock_in, 1, n)
                /\ line_start' = 1
                /\ pc' = "lines"
                /\ UNCHANGED <<keep_running, loop_exit_status, exit_cause>>
    /\ UNCHANGED <<read_split, resize_mark>>
    /\ UNCHANGED <<client_socket_fd, conn_up, peek_ret, event, shadow_buffer,
                   shadow_buffer_width, shadow_buffer_height, tb_size, tb_log,
                   sock_out, exit_code, n_events, dispatched, iter_mark,
                   std_out, std_err, fd_log>>

\* strchr(s + from - 1, c) on the char array s, whose end holds a NUL: the
\* position of the first c before the first NUL, or 0.
StrChr(s, from, c) ==
    LET hit == IndexFrom(s, c, from)
        z   == IndexFrom(s, NUL, from)
    IN  IF hit # 0 /\ (z = 0 \/ hit < z) THEN hit ELSE 0

\* strchr(line_start, '\n'): the position of the next newline of the C
\* string at line_start, or 0.
NewlinePos == StrChr(socket_buffer, line_start, LF)

\* The line the splitting loop is about to hand to handle_client_command.
CurrentLine == SubSeq(socket_buffer, line_start, NewlinePos - 1)

\* What the backend can return to the command in line.
TbReturns(line) ==
    LET args == ParseArgs(line)
        modes == IF Len(args) = 2 /\ args[1] \in {Cmd_set_input_mode, Cmd_set_output_mode}
                 THEN {-1, 0} ELSE {0}
    IN  {[mode |-> m, width |-> tb_size[1], height |-> tb_size[2]] : m \in modes}

\* Why handle_client_command returned 1 for the line: the shutdown branch
\* was taken, or the write of a response failed.
ReturnCause(line) ==
    IF ParseArgs(line) # <<>> /\ StrEq(ParseArgs(line)[1], Cmd_shutdown)
    THEN "shutdown" ELSE "write_failure"

\* A variant of the splitting loop that goes on after the line that follows.
NextLineStart_skipping(newline_pos) ==
    LET nl == IndexFrom(socket_buffer, LF, newline_pos + 1)
    IN  IF nl # 0 THEN nl + 1 ELSE newline_pos + 1

\* line_start = newline_pos + 1.
NextLineStart(newline_pos) == newline_pos + 1

\* A variant of the loop that never takes a command's result as a stop.
CmdResultStops_never(ret) == FALSE

\* cmd_result == 1: the loop stops with a clean exit status.
CmdResultStops(ret) == ret = 1

\* One turn of the splitting loop: a complete line is dispatched.
DispatchLine ==
    /\ pc = "lines"
    /\ NewlinePos # 0
    /\ \E wok \in WriteOutcomes, tb \in TbReturns(CurrentLine) :
         LET res == HandleClientCommand(CurrentLine, shadow_buffer,
                        shadow_buffer_width, shadow_buffer_height, wok, tb)
         IN  /\ sock_out' = sock_out \o res.out
             /\ conn_up' = ConnAfter(res.out, wok)
             /\ tb_log' = tb_log \o res.calls
             /\ shadow_buffer' = res.buf
             /\ dispatched' = Append(dispatched, CurrentLine)
             /\ IF CmdResultStops(res.ret)
                THEN /\ keep_running' = FALSE
                     /\ loop_exit_status' = 0
                     /\ exit_cause' = ReturnCause(CurrentLine)
                     /\ pc' = "cleanup"
                     /\ line_start' = line_start
                ELSE /\ line_start' = NextLineStart(NewlinePos)
                     /\ pc' = "lines"
                     /\ UNCHANGED <<keep_running, loop_exit_status, exit_cause>>
    /\ UNCHANGED <<read_split, resize_mark>>
    /\ UNCHANGED <<client_socket_fd, sock_in, socket_buffer, peek_ret, event,
                   shadow_buffer_width, shadow_buffer_height, tb_size,
                   exit_code, n_events, iter_mark, std_out, std_err, fd_log,
                   received>>

\* A variant of the loop that keeps nothing of an unfinished line.
Remaining_dropped == <<>>

\* The bytes memmove brings to the front of the buffer: those from
\* line_start on, if there are any.
Remaining ==
    IF line_start <= buffer_pos
    THEN SubSeq(socket_buffer, line_start, buffer_pos) ELSE <<>>

\* The end of the splitting loop: no newline is left.  The unfinished line
\* moves to the front of the buffer; a full buffer is dropped.
EndLines ==
    /\ pc = "lines"
    /\ NewlinePos = 0
    /\ IF ~keep_running
       THEN /\ pc' = "cleanup"
            /\ socket_buffer' = socket_buffer
       ELSE LET rest == Remaining
            IN  /\ socket_buffer' = IF Len(rest) >= SOCKET_BUFFER_SIZE - 1
                                    THEN <<>> ELSE rest
                /\ pc' = "peek"
    /\ UNCHANGED <<read_split, resize_mark>>
    /\ UNCHANGED <<client_socket_fd, conn_up, sock_in, line_start, keep_running,
                   loop_exit_status, peek_ret, event, shadow_buffer,
                   shadow_buffer_width, shadow_buffer_height, tb_size, tb_log,
                   sock_out, exit_code, n_events, dispatched, iter_mark,
                   std_out, std_err, fd_log, received, exit_cause>>

\* A variant of the cleanup that closes the connection whatever the
\* descriptor is, and once more.
CloseClient_twice(fd) == <<(<<"close", "client">>), (<<"close", "client">>)>>

\* if (client_socket_fd != -1) close(client_socket_fd): the calls made.
CloseClient(fd) == IF fd # -1 THEN <<(<<"close", "client">>)>> ELSE <<>>

\* After the loop: tb_shutdown(), close(), and main's exit status.
Cleanup ==
    /\ pc = "cleanup"
    /\ tb_log' = Append(tb_log, <<"tb_shutdown">>)
    /\ fd_log' = fd_log \o CloseClient(client_socket_fd)
    /\ client_socket_fd' = -1
    /\ exit_code' = IF loop_exit_status = 0 THEN 0 ELSE 1
    /\ pc' = "exited"
    /\ UNCHANGED <<read_split, resize_mark>>
    /\ UNCHANGED <<conn_up, sock_in, socket_buffer, line_start, keep_running,
                   loop_exit_status, peek_ret, event, shadow_buffer,
                   shadow_buffer_width, shadow_buffer_height, tb_size, sock_out,
                   n_events, dispatched, iter_mark, std_out, std_err, received,
                   exit_cause>>

Next ==
    \/ Bootstrap
    \/ Accept
    \/ PeekEvent
    \/ Select
    \/ Read
    \/ DispatchLine
    \/ EndLines
    \/ Cleanup

(***************************************************************************)
(* The client: the command lines it sends                                   *)
(***************************************************************************)

\* Tokens joined by single spaces.
RECURSIVE Join(_)
Join(toks) ==
    IF Len(toks) = 0 THEN <<>>
    ELSE IF Len(toks) = 1 THEN toks[1]
    ELSE toks[1] \o <<SP>> \o Join(Tail(toks))

GetCellLine(x, y) == Join(<<Cmd_get_cell, FmtD(x), FmtD(y)>>)

ChangeCellLine(x, y, ch, fg, bg) ==
    Join(<<Cmd_change_cell, FmtD(x), FmtD(y), FmtU(ch), FmtU(fg), FmtU(bg)>>)

\* print with its text given as tokens.
PrintLine(x, y, fg, bg, toks) ==
    Join(<<Cmd_print, FmtD(x), FmtD(y), FmtU(fg), FmtU(bg)>> \o toks)

\* The UTF-8 text of a sequence of code points.
RECURSIVE Utf8Text(_)
Utf8Text(cps) ==
    IF cps = <<>> THEN <<>>
    ELSE TbUtf8UnicodeToChar(Head(cps)) \o Utf8Text(Tail(cps))

\* A script: the bytes of a sequence of lines, each ended by a newline.
RECURSIVE Script(_)
Script(lines) ==
    IF lines = <<>> THEN <<>>
    ELSE Head(lines) \o <<LF>> \o Script(Tail(lines))

\* The coordinates the client uses: inside and just outside the largest cache.
Coords == (-1..MaxW) \X (-1..MaxH)
InnerCoords == (0..(MaxW - 1)) \X (0..(MaxH - 1))

\* Code points of one to four UTF-8 bytes, with NUL and newline.
CodePoints == {0, 10, 65, 233, 8364, 128512}

\* Attribute pairs <<fg, bg>>.
Attrs == {<<1, 2>>, <<65535, 256>>}

Tok_a == S(<<"a">>)
Tok_b == S(<<"b">>)
Tok_c == S(<<"c">>)
Tok_d == S(<<"d">>)
Tok_e == S(<<"e">>)
Tok_f == S(<<"f">>)
Tok_foo == S(<<"f","o","o">>)
Tok_1 == S(<<"1">>)
Tok_CLEAR == S(<<"C","L","E","A","R">>)
Tok_clearx == S(<<"c","l","e","a","r","x">>)
Tok_shut == S(<<"s","h","u","t">>)

\* Client of the cell commands: a change_cell, then a get_cell of the cell.
CellScripts ==
    {Script(<<ChangeCellLine(c[1], c[2], ch, a[1], a[2]), GetCellLine(c[1], c[2])>>) :
        c \in {<<0, 0>>, <<MaxW - 1, MaxH - 1>>}, ch \in CodePoints, a \in {<<1, 2>>}}
    \cup {Script(<<ChangeCellLine(MaxW, 0, 65, 1, 2), GetCellLine(MaxW, 0)>>),
          Script(<<ChangeCellLine(0, 0, 65, 65535, 256), GetCellLine(0, 0)>>),
          Script(<<GetCellLine(0, 0), GetCellLine(-1, 0)>>)}

\* Client of clear: a write, then clear; clear alone; clear, then a read.
ClearScripts ==
    {Script(<<w, Cmd_clear>>) :
        w \in {ChangeCellLine(0, 0, 65, 1, 2),
               ChangeCellLine(MaxW - 1, MaxH - 1, 233, 65535, 256),
               PrintLine(0, 0, 1, 2, <<Tok_a \o Tok_b>>),
               PrintLine(0, MaxH - 1, 3, 4, <<Tok_a, Tok_b>>)}}
    \cup {Script(<<Cmd_clear>>),
          Script(<<Cmd_clear \o <<CR>>, GetCellLine(0, 0)>>),
          Script(<<Cmd_clear, ChangeCellLine(0, 0, 65, 1, 2)>>)}

\* Client of the argument checks: one line per verb with a wrong number of
\* arguments, lines whose first token is no verb, and a few valid lines.
WrongArityLines ==
    {Join(<<Cmd_present, Tok_1>>),
     Join(<<Cmd_clear, Tok_1>>),
     Join(<<Cmd_clear, Tok_1, Tok_1, Tok_1, Tok_1, Tok_1, Tok_1, Tok_1, Tok_1,
            Tok_1, Tok_1, Tok_1>>),
     Cmd_print,
     Join(<<Cmd_print, Tok_1, Tok_1, Tok_1, Tok_1>>),
     Join(<<Cmd_change_cell, Tok_1, Tok_1, Tok_1, Tok_1>>),
     Join(<<Cmd_change_cell, Tok_1, Tok_1, Tok_1, Tok_1, Tok_1, Tok_1>>),
     Join(<<Cmd_get_cell, Tok_1>>),
     Join(<<Cmd_get_cell, Tok_1, Tok_1, Tok_1>>),
     Join(<<Cmd_width, Tok_1>>),
     Join(<<Cmd_height, Tok_1>>),
     Join(<<Cmd_set_cursor, Tok_1>>),
     Cmd_set_input_mode,
     Join(<<Cmd_set_output_mode, Tok_1, Tok_1>>),
     Join(<<Cmd_set_clear_attributes, Tok_1>>),
     Join(<<Cmd_DEBUG_SEND_EVENT, Tok_1, Tok_1, Tok_1, Tok_1, Tok_1, Tok_1, Tok_1>>),
     Join(<<Cmd_DEBUG_SEND_EVENT, Tok_1, Tok_1, Tok_1, Tok_1, Tok_1, Tok_1, Tok_1,
            Tok_1, Tok_1, Tok_1>>),
     Join(<<Cmd_shutdown, Tok_1>>)}

UnknownLines ==
    {Tok_foo,
     Join(<<Tok_foo, Tok_1, Tok_1>>),
     Tok_CLEAR,
     Tok_clearx \o <<CR>>,
     <<SP>> \o Tok_shut,
     Join(<<Tok_1, Cmd_clear>>)}

ValidLines ==
    {Cmd_width,
     Join(<<Cmd_set_input_mode, Tok_1>>),
     Join(<<Cmd_DEBUG_SEND_EVENT, Tok_1, Tok_1, Tok_1, Tok_1, Tok_1, Tok_1, Tok_1,
            Tok_1>>)}

ErrorScripts ==
    {Script(<<l>>) : l \in WrongArityLines \cup UnknownLines \cup ValidLines}
    \cup {Script(<<ChangeCellLine(0, 0, 65, 1, 2), l>>) :
            l \in {Join(<<Cmd_get_cell, Tok_1>>), Tok_clearx \o <<CR>>}}
    \cup {Script(<<l, GetCellLine(0, 0)>>) :
            l \in {Join(<<Cmd_clear, Tok_1>>), Tok_foo}}

\* Client of shutdown: shutdown alone, before and after another line.
ShutdownScripts ==
    {Script(<<Cmd_shutdown>>),
     Script(<<Cmd_shutdown, GetCellLine(0, 0)>>),
     Script(<<Cmd_shutdown \o <<CR>>, Cmd_shutdown>>),
     Script(<<GetCellLine(0, 0), Cmd_shutdown>>),
     Script(<<ChangeCellLine(0, 0, 65, 1, 2), Cmd_shutdown>>),
     Script(<<Cmd_width, Cmd_clear>>)}

\* Client of print: the column, row, attributes, the text as tokens, and the
\* code points of the text (the tokens joined by single spaces).
PrintCase(x, y, fg, bg, toks, cps) ==
    [x |-> x, y |-> y, fg |-> fg, bg |-> bg, toks |-> toks, cps |-> cps]

PrintCases ==
    {PrintCase(x, 0, 1, 2, <<Tok_a \o Tok_b>>, <<97, 98>>) : x \in {-1, 0, MaxW - 1}}
    \cup
    {PrintCase(0, MaxH - 1, 65535, 256, <<Utf8Text(<<233, 8364>>)>>, <<233, 8364>>),
     PrintCase(-1, 0, 1, 2, <<Utf8Text(<<128512, 97>>)>>, <<128512, 97>>),
     PrintCase(-2, 0, 1, 2, <<Tok_a \o Tok_b \o Tok_c>>, <<97, 98, 99>>),
     PrintCase(0, MaxH, 1, 2, <<Tok_a>>, <<97>>),
     PrintCase(0, 0, 3, 4, <<Tok_a, Tok_b>>, <<97, 32, 98>>),
     PrintCase(-7, 0, 1, 2, <<Tok_a, Tok_b, Tok_c, Tok_d, Tok_e>>,
               <<97, 32, 98, 32, 99, 32, 100, 32, 101>>),
     PrintCase(-9, 0, 1, 2, <<Tok_a, Tok_b, Tok_c, Tok_d, Tok_e, Tok_f>>,
               <<97, 32, 98, 32, 99, 32, 100, 32, 101, 32, 102>>)}

PrintCaseLine(c) == PrintLine(c.x, c.y, c.fg, c.bg, c.toks)

PrintScripts ==
    {Script(<<PrintCaseLine(c)>>) : c \in PrintCases}
    \cup {Script(<<PrintCaseLine(c), GetCellLine(0, 0)>>) :
            c \in {PrintCase(-1, 0, 1, 2, <<Tok_a \o Tok_b>>, <<97, 98>>)}}

\* A client sending up to three lines with different answers, one of them
\* empty.
OrderScripts ==
    {Script(<<Cmd_width, Cmd_height, Tok_foo>>),
     Script(<<Tok_foo, Cmd_width, Cmd_width>>),
     Script(<<Cmd_width, <<>>, Tok_foo>>),
     Script(<<Cmd_height, Cmd_width>>),
     Script(<<<<>>, Cmd_height>>),
     Script(<<Tok_foo, Tok_foo \o <<CR>>, Cmd_height>>),
     Script(<<Cmd_width>>)}

\* A client that writes a cell, sends a line that is answered with an
\* error, and reads the cell back.
FailingLines ==
    {Tok_foo,
     Join(<<Cmd_get_cell, Tok_1>>),
     Join(<<Cmd_set_input_mode, Tok_1>>),
     Join(<<Cmd_set_output_mode, Tok_1>>),
     GetCellLine(MaxW, 0),
     GetCellLine(0, -1)}

RecoverScripts ==
    {Script(<<ChangeCellLine(0, 0, 65, 1, 2), l, GetCellLine(0, 0)>>) :
        l \in FailingLines}

\* Client of the debug command: the eight arguments type, mod, key, ch, w,
\* h, x, y, each within the range of its field, and the EVENT line expected.
DebugCase(given, line) == [given |-> given, line |-> line]

DebugCases ==
    {DebugCase(<<1, 0, 0, 97, 0, 0, 0, 0>>,
        S(<<"E","V","E","N","T"," ","{","\"","t","y","p","e","\"",":","1",","," ","\"","m","o","d","\"",":","0",","," ","\"","k","e","y","\"",":","0",","," ","\"","c","h","\"",":","9","7",","," ","\"","w","\"",":","0",","," ","\"","h","\"",":","0",","," ","\"","x","\"",":","0",","," ","\"","y","\"",":","0","}">>)),
     DebugCase(<<2, 0, 0, 0, 1, 1, 0, 0>>,
        S(<<"E","V","E","N","T"," ","{","\"","t","y","p","e","\"",":","2",","," ","\"","m","o","d","\"",":","0",","," ","\"","k","e","y","\"",":","0",","," ","\"","c","h","\"",":","0",","," ","\"","w","\"",":","1",","," ","\"","h","\"",":","1",","," ","\"","x","\"",":","0",","," ","\"","y","\"",":","0","}">>)),
     DebugCase(<<1, 255, 65535, 128512, -1, 0, 3, -4>>,
        S(<<"E","V","E","N","T"," ","{","\"","t","y","p","e","\"",":","1",","," ","\"","m","o","d","\"",":","2","5","5",","," ","\"","k","e","y","\"",":","6","5","5","3","5",","," ","\"","c","h","\"",":","1","2","8","5","1","2",","," ","\"","w","\"",":","-","1",","," ","\"","h","\"",":","0",","," ","\"","x","\"",":","3",","," ","\"","y","\"",":","-","4","}">>))}

DebugLine(c) ==
    Join(<<Cmd_DEBUG_SEND_EVENT>>
         \o [i \in 1..8 |-> IF i <= 4 THEN FmtU(c.given[i]) ELSE FmtD(c.given[i])])

DebugScripts ==
    {Script(<<DebugLine(c)>>) : c \in DebugCases}
    \cup {Script(<<Cmd_width, DebugLine(c), Cmd_height>>) : c \in DebugCases}
    \cup {Script(<<ChangeCellLine(0, 0, 65, 1, 2), DebugLine(c), GetCellLine(0, 0)>>) :
            c \in {d \in DebugCases : d.given[1] = TB_EVENT_RESIZE}}

\* A client mixing cell writes and a backend query.
MixedLines == {ChangeCellLine(0, 0, 65, 1, 2), Cmd_width}

\* A client whose lines reach the session in pieces: a line ended by a
\* carriage return and a newline, an unfinished last line, and a NUL byte
\* at the start of a line.
ChunkScripts ==
    {Script(<<Cmd_width \o <<CR>>, Cmd_height>>),
     Script(<<Tok_a, Cmd_width>>) \o Tok_b,
     Script(<<Cmd_height>>) \o <<NUL>> \o Script(<<Tok_b>>)}

\* set_clear_attributes fg bg.
SetClearAttributesLine(fg, bg) ==
    Join(<<Cmd_set_clear_attributes, FmtU(fg), FmtU(bg)>>)

\* A client painting and clearing, with and without clear attributes of its
\* own.
AttrScripts ==
    {Script(<<SetClearAttributesLine(3, 4), Cmd_clear>>),
     Script(<<ChangeCellLine(0, 0, 65, 1, 2), Cmd_clear>>),
     Script(<<Cmd_clear, ChangeCellLine(MaxW - 1, MaxH - 1, 233, 5, 6)>>),
     Script(<<PrintLine(0, MaxH - 1, 3, 4, <<Tok_a \o Tok_b>>),
              ChangeCellLine(1, MaxH - 1, 65, 1, 2)>>),
     Script(<<SetClearAttributesLine(0, 0), Cmd_clear>>)}

\* A client sending, between two queries, a line with no token but perhaps
\* a carriage return: empty, spaces, and a carriage return alone, after
\* spaces and before a space.
BlankScripts ==
    {Script(<<Cmd_width, b, Cmd_height>>) :
        b \in {<<>>, <<SP>>, <<SP, SP>>, <<CR>>, <<SP, CR>>, <<CR, SP>>}}

\* A client sending two queries, and a client sending a NUL byte on a line
\* of its own before a query.
FairScripts ==
    {Script(<<Cmd_width, Cmd_height>>), Script(<<(<<NUL>>), Cmd_width>>)}

\* A line of n letters.
Letters(n) == [i \in 1..n |-> Ord("a")]

\* A client sending a line that fills the buffer before its newline, the
\* last bytes of the line being a command word, and a client sending the
\* longest line that fits.
OverflowScripts ==
    {Letters(SOCKET_BUFFER_SIZE - 1) \o Script(<<Cmd_width, Cmd_height>>),
     Script(<<Letters(SOCKET_BUFFER_SIZE - 2), Cmd_height>>)}

(***************************************************************************)
(* Specifications: the session with each client                             *)
(***************************************************************************)

SpecCells == InitWith(CellScripts) /\ [][Next]_vars
SpecClear == InitWith(ClearScripts) /\ [][Next]_vars
SpecErrors == InitWith(ErrorScripts) /\ [][Next]_vars
SpecShutdown == InitWith(ShutdownScripts) /\ [][Next]_vars
SpecPrint == InitWith(PrintScripts) /\ [][Next]_vars
SpecOrder == InitWith(OrderScripts) /\ [][Next]_vars
SpecRecover == InitWith(RecoverScripts) /\ [][Next]_vars
SpecDebug == InitWith(DebugScripts) /\ [][Next]_vars
\* A step of DispatchLine, told by what it does to dispatched: the same
\* steps of Next, possible in the same states.
DispatchStep ==
    /\ pc = "lines"
    /\ NewlinePos # 0
    /\ dispatched' = Append(dispatched, CurrentLine)

\* The session under fair scheduling: the process goes on taking the steps
\* of its loop, and neither select() nor read() is interrupted or told
\* nothing every time it is called while bytes are in flight.
SpecFair ==
    /\ InitWith(FairScripts)
    /\ [][Next]_vars
    /\ WF_vars(Bootstrap) /\ WF_vars(Accept)
    /\ WF_vars(PeekEvent) /\ WF_vars(Select) /\ WF_vars(Read)
    /\ WF_dispatched(DispatchStep) /\ WF_vars(EndLines) /\ WF_vars(Cleanup)
    /\ SF_vars(Select /\ sock_in # <<>> /\ pc' = "read")
    /\ SF_vars(Read /\ pc' = "lines")
SpecOverflow == InitWith(OverflowScripts) /\ [][Next]_vars
SpecAttrs == InitWith(AttrScripts) /\ [][Next]_vars
SpecBlank == InitWith(BlankScripts) /\ [][Next]_vars
SpecChunks == InitOf(ChunkScripts, {"bytes"}) /\ [][Next]_vars
Spec == InitWith(Scripts(MixedLines, MaxLines)) /\ [][Next]_vars

(***************************************************************************)
(* Properties                                                               *)
(***************************************************************************)

\* The splitting loop is about to dispatch CurrentLine.
Dispatching == pc = "lines" /\ NewlinePos # 0

\* The last line dispatched was dispatched in the current read, and the
\* loop goes on: whatever is dispatched next sees the cache as it is now.
JustDispatched == pc = "lines" /\ line_start > 1 /\ dispatched # <<>>

LastDispatched == dispatched[Len(dispatched)]

\* Backend return values for a command that asks the backend nothing.
TbIdle == [mode |-> 0, width |-> tb_size[1], height |-> tb_size[2]]

\* The writes get_cell x y makes on the cache (buf, w, h).
GetCellOut(buf, w, h, x, y, wok) ==
    HandleClientCommand(GetCellLine(x, y), buf, w, h, wok, TbIdle).out

\* The bytes of the line OK_CELL x y <text> fg bg.
OkCellBytes(x, y, text, fg, bg) ==
    S(<<"O","K","_","C","E","L","L">>) \o <<SP>> \o FmtD(x) \o <<SP>> \o FmtD(y) \o <<SP>> \o text
    \o <<SP>> \o FmtU(fg) \o <<SP>> \o FmtU(bg) \o <<LF>>

\* The bytes of the line ERROR invalid_coords_get_cell.
InvalidCoordsBytes == S(<<"E","R","R","O","R"," ","i","n","v","a","l","i","d","_","c","o","o","r","d","s","_","g","e","t","_","c","e","l","l">>) \o <<LF>>

\* C1 (as claimed): in a state with a non-empty cache, right after a
\* change_cell x y ch fg bg with (x, y) inside the cache, get_cell x y answers
\* the one line OK_CELL x y <UTF-8 of ch> fg bg, whatever ch, fg and bg are.
C1_RoundTrip ==
    (JustDispatched /\ shadow_buffer # NULL) =>
        \A c \in InnerCoords, ch \in CodePoints, a \in Attrs :
            (/\ LastDispatched = ChangeCellLine(c[1], c[2], ch, a[1], a[2])
             /\ c[1] < shadow_buffer_width /\ c[2] < shadow_buffer_height)
            => \A wok \in BOOLEAN :
                 GetCellOut(shadow_buffer, shadow_buffer_width,
                            shadow_buffer_height, c[1], c[2], wok)
                 = <<Written(OkCellBytes(c[1], c[2], TbUtf8UnicodeToChar(ch),
                                         a[1], a[2]), wok)>>

\* What get_cell x y should answer on a fresh cache of w by h cells.
FreshAnswer(w, h, x, y, wok) ==
    IF x >= 0 /\ x < w /\ y >= 0 /\ y < h
    THEN <<Written(OkCellBytes(x, y, <<SP>>, TB_DEFAULT, TB_DEFAULT), wok)>>
    ELSE <<Written(InvalidCoordsBytes, wok)>>

\* C2 (as claimed): once a resize event to (W, H), W > 0 and H > 0, has been
\* processed and before any command is dispatched, get_cell x y answers the
\* default cell for every (x, y) in [0,W) x [0,H) and
\* ERROR invalid_coords_get_cell for every other (x, y).
C2_ResizeInvalidation ==
    (/\ pc = "select" /\ peek_ret > 0 /\ event.type = TB_EVENT_RESIZE
     /\ event.w > 0 /\ event.h > 0)
    => \A c \in Coords, wok \in BOOLEAN :
         GetCellOut(shadow_buffer, shadow_buffer_width, shadow_buffer_height,
                    c[1], c[2], wok)
         = FreshAnswer(event.w, event.h, c[1], c[2], wok)

\* C3: the step that dispatches a clear without arguments keeps the cache
\* width, height and storage size, and leaves a cache in which get_cell
\* answers the default cell at every coordinate inside the bounds.
C3_Clear ==
    [][(Dispatching /\ ParseArgs(CurrentLine) = <<Cmd_clear>>)
       => /\ shadow_buffer_width' = shadow_buffer_width
          /\ shadow_buffer_height' = shadow_buffer_height
          /\ DOMAIN shadow_buffer' = DOMAIN shadow_buffer
          /\ \A c \in Coords, wok \in BOOLEAN :
               InShadow(shadow_buffer', shadow_buffer_width',
                        shadow_buffer_height', c[1], c[2])
               => GetCellOut(shadow_buffer', shadow_buffer_width',
                             shadow_buffer_height', c[1], c[2], wok)
                  = <<Written(OkCellBytes(c[1], c[2], <<SP>>,
                                          TB_DEFAULT, TB_DEFAULT), wok)>>]_vars

\* C3 witness: a resize made the cache non-empty, a change_cell wrote into
\* it, and the clear after it has been dispatched.
C3_Witness ==
    /\ dispatched = <<ChangeCellLine(0, 0, 65, 1, 2), Cmd_clear>>
    /\ Len(sock_out) = 3
    /\ sock_out[1].bytes = EventStr(ResizeEvent(MaxW, MaxH)) \o <<LF>>
    /\ shadow_buffer # NULL
    /\ shadow_buffer[0] = DefaultCell

\* All the tokens of a line, before the args array caps them.
Tokens(line) == StrTok(StripCR(line), 1)

\* The verbs of the command table.
TableVerbs ==
    {Cmd_present, Cmd_clear, Cmd_print, Cmd_change_cell, Cmd_get_cell,
     Cmd_width, Cmd_height, Cmd_set_cursor, Cmd_set_input_mode,
     Cmd_set_output_mode, Cmd_set_clear_attributes, Cmd_DEBUG_SEND_EVENT,
     Cmd_shutdown}

\* Whether n arguments is a count the command table lists for the verb:
\* print takes x y fg bg and at least one text token.
TableArityOk(verb, n) ==
    CASE verb = Cmd_print -> n >= 5
      [] verb \in {Cmd_change_cell} -> n = 5
      [] verb \in {Cmd_get_cell, Cmd_set_cursor, Cmd_set_clear_attributes} -> n = 2
      [] verb \in {Cmd_set_input_mode, Cmd_set_output_mode} -> n = 1
      [] verb = Cmd_DEBUG_SEND_EVENT -> n = 8
      [] OTHER -> n = 0

\* The line ERROR invalid_args_<verb>.
InvalidArgsLine(verb) ==
    CASE verb = Cmd_present -> Line_invalid_args_present
      [] verb = Cmd_clear -> Line_invalid_args_clear
      [] verb = Cmd_print -> Line_invalid_args_print
      [] verb = Cmd_change_cell -> Line_invalid_args_change_cell
      [] verb = Cmd_get_cell -> Line_invalid_args_get_cell
      [] verb = Cmd_width -> Line_invalid_args_width
      [] verb = Cmd_height -> Line_invalid_args_height
      [] verb = Cmd_set_cursor -> Line_invalid_args_set_cursor
      [] verb = Cmd_set_input_mode -> Line_invalid_args_set_input_mode
      [] verb = Cmd_set_output_mode -> Line_invalid_args_set_output_mode
      [] verb = Cmd_set_clear_attributes -> Line_invalid_args_set_clear_attributes
      [] verb = Cmd_DEBUG_SEND_EVENT -> Line_invalid_args_debug_send_event
      [] OTHER -> S(<<"E","R","R","O","R"," ","i","n","v","a","l","i","d","_","a","r","g","s","_">>) \o verb

WrongArity(line) ==
    /\ Tokens(line) # <<>>
    /\ Tokens(line)[1] \in TableVerbs
    /\ ~TableArityOk(Tokens(line)[1], Len(Tokens(line)) - 1)

\* The step wrote exactly the one line on the socket.
AnsweredWith(line) ==
    \E wok \in BOOLEAN : sock_out' = Append(sock_out, Written(line \o <<LF>>, wok))

\* C4 (as stated): a dispatched line that names a verb of the command table,
\* shutdown included, with an argument count the table does not list is
\* answered with exactly one line ERROR invalid_args_<verb>.
C4_ArityResponse ==
    [][(Dispatching /\ WrongArity(CurrentLine))
       => AnsweredWith(InvalidArgsLine(Tokens(CurrentLine)[1]))]_vars

\* The same for every verb but shutdown.
ArityResponseButShutdown ==
    [][(Dispatching /\ WrongArity(CurrentLine)
        /\ Tokens(CurrentLine)[1] # Cmd_shutdown)
       => AnsweredWith(InvalidArgsLine(Tokens(CurrentLine)[1]))]_vars

\* The step answered with one of the ERROR invalid_args_<verb> lines.
RejectedForArity ==
    /\ Len(sock_out') = Len(sock_out) + 1
    /\ \E verb \in TableVerbs :
         sock_out'[Len(sock_out')].bytes = InvalidArgsLine(verb) \o <<LF>>

\* C5: a dispatch that rejects the command for a wrong argument count makes
\* no backend call, changes no cell and no dimension of the shadow buffer,
\* and goes on to the next line: the loop is not told to stop.
C5_ArityFrame ==
    [][(Dispatching /\ RejectedForArity)
       => /\ tb_log' = tb_log
          /\ tb_size' = tb_size
          /\ shadow_buffer' = shadow_buffer
          /\ shadow_buffer_width' = shadow_buffer_width
          /\ shadow_buffer_height' = shadow_buffer_height
          /\ pc' = "lines"
          /\ line_start' > line_start
          /\ keep_running' = keep_running
          /\ loop_exit_status' = loop_exit_status]_vars

\* C5 witness: a cell was written, then get_cell with one argument was
\* rejected, and the loop is still splitting lines with the cell in place.
C5_Witness ==
    /\ JustDispatched
    /\ dispatched = <<ChangeCellLine(0, 0, 65, 1, 2), Join(<<Cmd_get_cell, Tok_1>>)>>
    /\ sock_out[Len(sock_out)].bytes = Line_invalid_args_get_cell \o <<LF>>
    /\ shadow_buffer # NULL
    /\ shadow_buffer[0] = Cell(65, 1, 2)
    /\ keep_running

\* C6: a dispatched line that has a first token, and whose first token is
\* none of the verbs, is answered with exactly the line ERROR unknown_command
\* and changes neither the shadow buffer nor the backend.
C6_UnknownCommand ==
    [][(Dispatching /\ Tokens(CurrentLine) # <<>>
        /\ Tokens(CurrentLine)[1] \notin TableVerbs)
       => /\ AnsweredWith(Line_unknown_command)
          /\ tb_log' = tb_log
          /\ tb_size' = tb_size
          /\ shadow_buffer' = shadow_buffer
          /\ shadow_buffer_width' = shadow_buffer_width
          /\ shadow_buffer_height' = shadow_buffer_height]_vars

\* C6 witness: a cell was written, then a line that only starts like a verb
\* was answered ERROR unknown_command.
C6_Witness ==
    /\ JustDispatched
    /\ dispatched = <<ChangeCellLine(0, 0, 65, 1, 2), Tok_clearx \o <<CR>>>>
    /\ sock_out[Len(sock_out)].bytes = Line_unknown_command \o <<LF>>
    /\ shadow_buffer # NULL
    /\ shadow_buffer[0] = Cell(65, 1, 2)

\* The line is the shutdown command.
IsShutdown(line) == ParseArgs(line) = <<Cmd_shutdown>>

\* C7: the dispatch of a shutdown line writes OK and leaves the loop with
\* a success status; from then on no line is dispatched and nothing is
\* written, and the one step left ends the process with exit status 0.
C7_Shutdown ==
    [][/\ (Dispatching /\ IsShutdown(CurrentLine))
          => /\ AnsweredWith(Line_OK)
             /\ dispatched' = Append(dispatched, CurrentLine)
             /\ keep_running' = FALSE
             /\ loop_exit_status' = 0
             /\ pc' = "cleanup"
       /\ (dispatched # <<>> /\ IsShutdown(LastDispatched))
          => /\ dispatched' = dispatched
             /\ sock_out' = sock_out
             /\ pc' = "exited"
             /\ exit_code' = 0]_vars

\* C7 witness: the process has exited with status 0 after dispatching
\* shutdown alone, with the get_cell line of the same read left in the
\* buffer and one response written after the events.
C7_Witness ==
    /\ pc = "exited"
    /\ exit_code = 0
    /\ dispatched = <<Cmd_shutdown>>
    /\ sock_in = <<>>
    /\ socket_buffer = Script(<<Cmd_shutdown, GetCellLine(0, 0)>>)
    /\ sock_out # <<>>
    /\ sock_out[Len(sock_out)].bytes = Line_OK \o <<LF>>
    /\ \A i \in 1..(Len(sock_out) - 1) :
         sock_out[i].bytes # Line_OK \o <<LF>>

\* The step is the dispatch of the print line of case c, whose code points
\* are those of its tokens joined by single spaces.
DispatchingPrint(c) ==
    /\ Dispatching
    /\ CurrentLine = PrintCaseLine(c)
    /\ Utf8Text(c.cps) = Join(c.toks)

\* The step paints the backend cell (x+i, y) with (ci, fg, bg) for every
\* code point ci of the text, in order, and writes into the shadow buffer
\* exactly those of them whose column and row are inside it.
PrintAdvances(c) ==
    /\ tb_log' = tb_log \o [i \in 1..Len(c.cps) |->
                              TbChangeCell(c.x + i - 1, c.y, c.cps[i], c.fg, c.bg)]
    /\ shadow_buffer_width' = shadow_buffer_width
    /\ shadow_buffer_height' = shadow_buffer_height
    /\ DOMAIN shadow_buffer' = DOMAIN shadow_buffer
    /\ \A p \in Coords :
         InShadow(shadow_buffer, shadow_buffer_width, shadow_buffer_height, p[1], p[2])
         => LET idx == ShadowIndex(shadow_buffer_width, p[1], p[2])
                i   == p[1] - c.x + 1
            IN  shadow_buffer'[idx] =
                  IF p[2] = c.y /\ i \in 1..Len(c.cps)
                  THEN Cell(c.cps[i], c.fg, c.bg)
                  ELSE shadow_buffer[idx]

PrintAdvanceWithinArgs ==
    [][\A c \in PrintCases :
         (DispatchingPrint(c) /\ 5 + Len(c.toks) <= MAX_ARGS)
         => PrintAdvances(c)]_vars

\* The code points the step painted, in order.
Painted ==
    [i \in 1..(Len(tb_log') - Len(tb_log)) |-> tb_log'[Len(tb_log) + i][4]]

PrintTextWithinArgs ==
    [][\A c \in PrintCases :
         (DispatchingPrint(c) /\ 5 + Len(c.toks) <= MAX_ARGS)
         => Painted = c.cps]_vars

\* C10: when a line is dispatched in an iteration whose poll yielded an
\* event, the first write of the iteration is the EVENT line of that event,
\* and the response of the line is written after it.
C10_EventBeforeCommands ==
    [][(Dispatching /\ peek_ret > 0)
       => /\ Len(sock_out) > iter_mark
          /\ sock_out[iter_mark + 1].bytes = EventStr(event) \o <<LF>>
          /\ Len(sock_out') >= Len(sock_out)
          /\ SubSeq(sock_out', 1, Len(sock_out)) = sock_out]_vars

\* C10 witness: the poll of the iteration yielded an event and a line was
\* dispatched in it; the iteration wrote the EVENT line and then a response.
C10_Witness ==
    /\ JustDispatched
    /\ peek_ret > 0
    /\ n_events >= 1
    /\ Len(sock_out) = iter_mark + 2
    /\ sock_out[iter_mark + 1].bytes = EventStr(event) \o <<LF>>
    /\ sock_out[iter_mark + 2].bytes = Txt_OK_WIDTH \o FmtD(tb_size[1]) \o <<LF>>

\* p is a prefix of s.
IsPrefix(p, s) == Len(p) <= Len(s) /\ SubSeq(s, 1, Len(p)) = p

\* The complete lines of a byte stream, without their newlines, in order.
RECURSIVE LinesOf(_)
LinesOf(bytes) ==
    LET nl == IndexFrom(bytes, LF, 1)
    IN  IF nl = 0 THEN <<>>
        ELSE <<SubSeq(bytes, 1, nl - 1)>> \o LinesOf(SubSeq(bytes, nl + 1, Len(bytes)))

Txt_EVENT == S(<<"E","V","E","N","T">>)
Txt_OK == S(<<"O","K">>)
Txt_ERROR == S(<<"E","R","R","O","R">>)

\* The writes on the connection that are not EVENT lines.
IsResponse(w) == ~IsPrefix(Txt_EVENT, w.bytes)
Responses == SelectSeq(sock_out, IsResponse)

\* The lines dispatched that produce a response: those with a token.
HasToken(line) == Tokens(line) # <<>>
Answered == SelectSeq(dispatched, HasToken)

\* How the response to a line of the ordering client begins.
AnswerPrefix(line) ==
    CASE Tokens(line)[1] = Cmd_width -> Txt_OK_WIDTH
      [] Tokens(line)[1] = Cmd_height -> Txt_OK_HEIGHT
      [] OTHER -> Line_unknown_command

\* C11: the lines dispatched so far are the first complete lines received,
\* in the order their bytes arrived and each once; and the responses
\* written so far are, one for one and in the same order, those of the
\* dispatched lines that produce a response.
C11_ArrivalOrder ==
    /\ IsPrefix(dispatched, LinesOf(received))
    /\ Len(Responses) = Len(Answered)
    /\ \A i \in 1..Len(Responses) :
         IsPrefix(AnswerPrefix(Answered[i]), Responses[i].bytes)

\* C11 witness: three lines, the second empty, arrived in one read and have
\* all been dispatched; two responses were written.
C11_Witness ==
    /\ pc = "lines"
    /\ socket_buffer = Script(<<Cmd_width, <<>>, Tok_foo>>)
    /\ received = socket_buffer
    /\ dispatched = <<Cmd_width, <<>>, Tok_foo>>
    /\ Len(Responses) = 2
    /\ Responses[2].bytes = Line_unknown_command \o <<LF>>

\* The iteration polled a resize event and has written its EVENT line.
ResizeForwarded ==
    /\ pc \in {"select", "read", "lines"}
    /\ peek_ret > 0
    /\ event.type = TB_EVENT_RESIZE
    /\ Len(sock_out) > iter_mark
    /\ sock_out[iter_mark + 1].bytes = EventStr(event) \o <<LF>>

\* The shadow buffer has the dimensions (w, h), or is empty when w <= 0 or
\* h <= 0.
CacheSized(w, h) ==
    IF w > 0 /\ h > 0
    THEN /\ shadow_buffer_width = w
         /\ shadow_buffer_height = h
         /\ DOMAIN shadow_buffer = 0..(w * h - 1)
    ELSE /\ shadow_buffer_width = 0
         /\ shadow_buffer_height = 0
         /\ shadow_buffer = NULL

\* C12 (as stated): once the EVENT line of a polled resize event (w, h) is
\* written, and while the commands of that iteration are dispatched, the
\* shadow buffer has the dimensions (w, h), or is empty when w <= 0 or
\* h <= 0.
C12_ResizeBeforeForward ==
    (peek_ret > 0 /\ event.type = TB_EVENT_RESIZE
     /\ pc \in {"select", "read", "lines"})
    => (ResizeForwarded /\ CacheSized(event.w, event.h))

\* The same when the allocation of the new storage succeeded.
ResizeBeforeForwardAllocated ==
    (/\ peek_ret > 0 /\ event.type = TB_EVENT_RESIZE
     /\ pc \in {"select", "read", "lines"}
     /\ ~(event.w > 0 /\ event.h > 0 /\ shadow_buffer = NULL))
    => (ResizeForwarded /\ CacheSized(event.w, event.h))

\* The process has exited after serving the connection.
ExitedAfterServing ==
    /\ pc = "exited"
    /\ exit_cause \in {"shutdown", "peer_close", "read_error", "select_error",
                       "write_failure"}

\* C13 (as stated): the process exits with success exactly when serving
\* ended by a shutdown command or by the peer closing; when it ended by a
\* failed write of a response or by a failed read, it exits with failure.
C13_ExitStatus ==
    ExitedAfterServing
    => (exit_code = 0 <=> exit_cause \in {"shutdown", "peer_close"})

\* The same for every end of serving but a failed write of a response.
ExitStatusButWriteFailure ==
    (ExitedAfterServing /\ exit_cause # "write_failure")
    => (exit_code = 0 <=> exit_cause \in {"shutdown", "peer_close"})

\* The write of an EVENT line on the connection has failed.
EventWriteFailed ==
    \E i \in 1..Len(sock_out) :
       IsPrefix(Txt_EVENT, sock_out[i].bytes) /\ ~sock_out[i].ok

\* C14 (as stated): once the write of an EVENT line has failed, no further
\* event is polled and no further command is dispatched, and the process
\* exits with failure.
C14_EventWriteFatal ==
    [][EventWriteFailed
       => /\ n_events' = n_events
          /\ dispatched' = dispatched
          /\ (pc' = "exited" => exit_code' # 0)]_vars

\* How many times a call appears in a log of calls.
Count(log, call) == Cardinality({i \in 1..Len(log) : log[i] = call})

\* C15: at most one connection is ever accepted, it is closed at most once
\* and only at the end of the process, so that it is never used after the
\* close; the backend is shut down at most once; and when the process has
\* exited after serving, by whichever way out, the backend was shut down
\* exactly once and the accepted connection closed exactly once.
C15_DrainOnce ==
    /\ Count(fd_log, <<"accept">>) <= 1
    /\ Count(fd_log, <<"close", "client">>) <= Count(fd_log, <<"accept">>)
    /\ Count(tb_log, <<"tb_shutdown">>) <= 1
    /\ (Count(fd_log, <<"close", "client">>) > 0 \/ Count(tb_log, <<"tb_shutdown">>) > 0)
       => (pc = "exited" /\ client_socket_fd = -1)
    /\ ExitedAfterServing
       => /\ Count(fd_log, <<"accept">>) = 1
          /\ Count(fd_log, <<"close", "client">>) = 1
          /\ Count(tb_log, <<"tb_shutdown">>) = 1
          /\ tb_log[Len(tb_log)] = <<"tb_shutdown">>

\* C15 witness: serving ended by a read error after a line was dispatched
\* and answered; the backend was shut down and the connection closed.
C15_Witness ==
    /\ ExitedAfterServing
    /\ exit_cause = "read_error"
    /\ dispatched # <<>>
    /\ sock_out # <<>>
    /\ fd_log = <<(<<"socket">>), (<<"accept">>), (<<"close", "client">>)>>
    /\ Count(tb_log, <<"tb_shutdown">>) = 1

\* The error lines of the errors recovered in place: unknown command, wrong
\* argument count, mode rejected by the backend, get_cell outside the cache.
RecoverableErrors ==
    {InvalidArgsLine(verb) : verb \in TableVerbs}
    \cup {Line_unknown_command, Line_tb_select_input_mode_failed,
          Line_tb_select_output_mode_failed, Line_invalid_coords_get_cell}

\* The step answered with one of these error lines.
AnsweredError ==
    /\ Len(sock_out') = Len(sock_out) + 1
    /\ \E l \in RecoverableErrors : sock_out'[Len(sock_out')].bytes = l \o <<LF>>

\* The lines of the buffer after the one being dispatched.
LinesAfterCurrent ==
    LinesOf(SubSeq(socket_buffer, NewlinePos + 1, Len(socket_buffer)))

\* C16: a dispatch answered with such an error leaves the loop serving, with
\* the line after it the next to be dispatched, and leaves the shadow buffer
\* as it was, so that every line after it gets the answer it would have got
\* in the place of the failed line.
C16_RecoveredInPlace ==
    [][(Dispatching /\ AnsweredError)
       => /\ pc' = "lines"
          /\ keep_running' = keep_running
          /\ loop_exit_status' = loop_exit_status
          /\ socket_buffer' = socket_buffer
          /\ line_start' = NewlinePos + 1
          /\ tb_size' = tb_size
          /\ \A i \in 1..Len(LinesAfterCurrent), wok \in BOOLEAN :
               \A tb \in TbReturns(LinesAfterCurrent[i]) :
                  HandleClientCommand(LinesAfterCurrent[i], shadow_buffer',
                                      shadow_buffer_width', shadow_buffer_height',
                                      wok, tb)
                  = HandleClientCommand(LinesAfterCurrent[i], shadow_buffer,
                                        shadow_buffer_width, shadow_buffer_height,
                                        wok, tb)]_vars

\* C16 witness: a cell was written, the backend rejected the input mode of
\* the next line, and the get_cell after it was answered with the cell.
C16_Witness ==
    /\ JustDispatched
    /\ dispatched = <<ChangeCellLine(0, 0, 65, 1, 2),
                      Join(<<Cmd_set_input_mode, Tok_1>>), GetCellLine(0, 0)>>
    /\ Len(sock_out) >= 3
    /\ sock_out[Len(sock_out) - 1].bytes = Line_tb_select_input_mode_failed \o <<LF>>
    /\ sock_out[Len(sock_out)].bytes = OkCellBytes(0, 0, S(<<"A">>), 1, 2)

\* The cache is empty or (x, y) is outside [0, width) x [0, height).
CacheMiss(x, y) ==
    \/ shadow_buffer = NULL
    \/ shadow_buffer_width = 0 \/ shadow_buffer_height = 0
    \/ x < 0 \/ x >= shadow_buffer_width
    \/ y < 0 \/ y >= shadow_buffer_height

\* The OK_CELL line of the cell stored at (x, y): its code point as %s
\* prints the bytes of its encoding, and its attributes.
StoredCellLine(x, y) ==
    LET cell  == shadow_buffer[y * shadow_buffer_width + x]
        bytes == OkCellBytes(x, y, CStr(TbUtf8UnicodeToChar(cell.ch)),
                             cell.fg, cell.bg)
    IN  SubSeq(bytes, 1, Len(bytes) - 1)

\* C17: the dispatch of get_cell x y answers ERROR invalid_coords_get_cell
\* exactly when the cache is empty or (x, y) is outside it, and otherwise
\* the OK_CELL line of the stored cell; either way it calls no backend
\* operation and changes no cell and no dimension of the cache.
C17_GetCellReadsCache ==
    [][\A c \in Coords :
         (Dispatching /\ CurrentLine = GetCellLine(c[1], c[2]))
         => /\ IF CacheMiss(c[1], c[2])
               THEN AnsweredWith(Line_invalid_coords_get_cell)
               ELSE AnsweredWith(StoredCellLine(c[1], c[2]))
            /\ tb_log' = tb_log
            /\ tb_size' = tb_size
            /\ shadow_buffer' = shadow_buffer
            /\ shadow_buffer_width' = shadow_buffer_width
            /\ shadow_buffer_height' = shadow_buffer_height]_vars

\* C17 witness: with a cell written at (0, 0) of a non-empty cache, both a
\* get_cell inside and a get_cell outside have been answered.
C17_Witness ==
    /\ JustDispatched
    /\ shadow_buffer # NULL
    /\ shadow_buffer[0] = Cell(65, 65535, 256)
    /\ dispatched = <<ChangeCellLine(0, 0, 65, 65535, 256), GetCellLine(0, 0)>>
    /\ sock_out[Len(sock_out)].bytes
         = S(<<"O","K","_","C","E","L","L"," ","0"," ","0"," ","A"," ","6","5","5","3","5"," ","2","5","6">>) \o <<LF>>
    /\ tb_log = <<TbChangeCell(0, 0, 65, 65535, 256)>>

\* C18: the dispatch of the debug command with its 8 arguments writes
\* exactly one line on the connection, the EVENT line carrying the eight
\* given values, at the place of the command's response, and neither OK nor
\* ERROR; the loop goes on with the next line.
C18_DebugEvent ==
    [][\A c \in DebugCases :
         (Dispatching /\ CurrentLine = DebugLine(c))
         => /\ AnsweredWith(c.line)
            /\ pc' = "lines"
            /\ line_start' = NewlinePos + 1]_vars

\* C18 witness: width, the debug command and height were dispatched in this
\* order; the last three writes are OK_WIDTH, the EVENT line, OK_HEIGHT.
C18_Witness ==
    \E c \in DebugCases :
       /\ c.given[7] = 3
       /\ JustDispatched
       /\ dispatched = <<Cmd_width, DebugLine(c), Cmd_height>>
       /\ Len(sock_out) >= 3
       /\ IsPrefix(Txt_OK_WIDTH, sock_out[Len(sock_out) - 2].bytes)
       /\ sock_out[Len(sock_out) - 1].bytes = c.line \o <<LF>>
       /\ IsPrefix(Txt_OK_HEIGHT, sock_out[Len(sock_out)].bytes)

\* Every write made so far on the connection is one newline-terminated line
\* that begins with EVENT, OK or ERROR.
WellPrefixed ==
    \A i \in 1..Len(sock_out) :
       LET bytes == sock_out[i].bytes
       IN  /\ bytes # <<>>
           /\ bytes[Len(bytes)] = LF
           /\ Len(LinesOf(bytes)) = 1
           /\ \E prefix \in {Txt_EVENT, Txt_OK, Txt_ERROR} : IsPrefix(prefix, bytes)

\* C19 (as stated): every line written on the connection begins with EVENT,
\* OK or ERROR, whatever the cache holds, and a get_cell success writes
\* exactly one newline-terminated line.
C19_LinePrefix == WellPrefixed

\* The same as long as no cell was given the code point 10 (newline).
LinePrefixWithoutNewlineCell ==
    (\A i \in 1..Len(dispatched) : \A c \in InnerCoords, a \in Attrs :
        dispatched[i] # ChangeCellLine(c[1], c[2], 10, a[1], a[2]))
    => WellPrefixed

BootFailures ==
    {"socket_create_failed", "socket_bind_failed", "socket_listen_failed"}

\* After a bootstrap failure the process has exited non-zero without
\* accepting, and the lines of channel are the one line error <reason>;
\* a connection is accepted only after OK <socket-path> went out on
\* standard output, which happens only when listen succeeded.
BootstrapReportedOn(channel) ==
    /\ exit_cause \in BootFailures
       => /\ channel = <<BootErrorLine(exit_cause)>>
          /\ pc = "exited"
          /\ exit_code > 0
          /\ Count(fd_log, <<"accept">>) = 0
    /\ exit_cause \notin BootFailures
       => std_out = IF pc = "boot" THEN <<>> ELSE <<Txt_OK_sp \o SocketPath>>

\* C20 (as stated): a failure of socket creation, bind or listen is reported
\* as error <reason> on standard output, with a non-zero exit and no accept;
\* OK <socket-path> is written on standard output only after listen
\* succeeded and before the accept.
C20_BootstrapFailure == BootstrapReportedOn(std_out)

\* The same with the error line looked for on standard error.
BootstrapFailureOnStderr == BootstrapReportedOn(std_err)

(***************************************************************************)
(* The framing of the byte stream                                           *)
(***************************************************************************)

\* What the splitting loop makes of a buffer holding the whole of buf from
\* position from on: the lines it dispatches and the bytes it leaves.
RECURSIVE SplitFrom(_, _)
SplitFrom(buf, from) ==
    LET nl == StrChr(buf, from, LF)
    IN  IF nl = 0
        THEN [lines |-> <<>>, rest |-> SubSeq(buf, from, Len(buf))]
        ELSE LET after == SplitFrom(buf, nl + 1)
             IN  [lines |-> <<SubSeq(buf, from, nl - 1)>> \o after.lines,
                  rest |-> after.rest]

\* The command lines of a sequence of dispatched lines: each without its
\* trailing carriage return.
CommandLines(lines) == [i \in 1..Len(lines) |-> StripCR(lines[i])]

\* The session is between two reads of its loop.
BetweenReads == pc \in {"peek", "select", "read"}

FitsBuffer(line) == Len(line) < SOCKET_BUFFER_SIZE - 1

\* The bytes the client has sent and will send.
Stream == received \o sock_in

\* C22: after the buffer filled without a newline and was dropped, the
\* session goes on, no part of the overlong line is dispatched, and the
\* lines after its newline are: the dispatched lines are, in order, lines
\* of the stream that fit in the buffer.
C22_FramerOverflow ==
    IsPrefix(dispatched, SelectSeq(LinesOf(Stream), FitsBuffer))

\* The buffer was dropped and the session is still serving.
FramerOverflowed ==
    /\ BetweenReads
    /\ Len(received) >= SOCKET_BUFFER_SIZE - 1
    /\ socket_buffer = <<>>
    /\ dispatched = <<>>

(***************************************************************************)
(* The scheduling of the loop                                               *)
(***************************************************************************)

\* The session is in its loop.
Serving == pc \in {"peek", "select", "read", "lines"}

\* Every complete line the client sent has been dispatched, and those that
\* produce a response have one.
AllDispatchedAndAnswered ==
    /\ dispatched = LinesOf(Stream)
    /\ Len(Responses) = Len(Answered)

\* C23: an event is forwarded only by the step that leads to the readiness
\* check of the connection, so at most one between two checks; and under
\* fair scheduling a serving session comes, unless it stops serving, to
\* have dispatched and answered every complete line that arrived.
C23_NoStarvation ==
    /\ [][n_events' > n_events => pc = "peek" /\ pc' = "select"]_vars
    /\ Serving ~> (~Serving \/ AllDispatchedAndAnswered)

\* The same for the bytes of a stream before its first NUL byte.
NoStarvationBeforeNul ==
    Serving ~> (~Serving \/ /\ IsPrefix(LinesOf(CStr(Stream)), dispatched)
                            /\ Len(Responses) = Len(Answered))

(***************************************************************************)
(* The shadow buffer                                                        *)
(***************************************************************************)

\* The shadow buffer is absent with both dimensions 0, or holds exactly
\* width * height cells with both dimensions positive.
CacheShape ==
    \/ /\ shadow_buffer_width = 0
       /\ shadow_buffer_height = 0
       /\ shadow_buffer = NULL
    \/ /\ shadow_buffer_width > 0
       /\ shadow_buffer_height > 0
       /\ shadow_buffer # NULL
       /\ DOMAIN shadow_buffer
            = 0..(shadow_buffer_width * shadow_buffer_height - 1)

\* C24: the shadow buffer has one of its two shapes, and the index
\* y * width + x of every coordinate that passes the bounds test of print,
\* change_cell and get_cell, and of every coordinate the loop of clear
\* visits, is an index of the storage.
C24_ScreenBuffer ==
    /\ CacheShape
    /\ \A c \in Coords :
         InShadow(shadow_buffer, shadow_buffer_width, shadow_buffer_height,
                  c[1], c[2])
           => ShadowIndex(shadow_buffer_width, c[1], c[2]) \in DOMAIN shadow_buffer
    /\ \A y \in 0..(shadow_buffer_height - 1), x \in 0..(shadow_buffer_width - 1) :
         ShadowIndex(shadow_buffer_width, x, y) \in DOMAIN shadow_buffer

\* A write at the last coordinate and a clear were made on a cache of the
\* full size, which holds its width * height cells afterwards.
C24_Witness ==
    /\ dispatched = <<ChangeCellLine(MaxW - 1, MaxH - 1, 233, 65535, 256), Cmd_clear>>
    /\ shadow_buffer_width = MaxW
    /\ shadow_buffer_height = MaxH
    /\ shadow_buffer = FreshBuffer(MaxW, MaxH)
    /\ tb_log = <<TbChangeCell(MaxW - 1, MaxH - 1, 233, 65535, 256), <<"tb_clear">>>>

\* The allocation of update_shadow_buffer_size failed in this iteration: a
\* resize event with positive dimensions was polled and there is no
\* storage.
AllocationFailed ==
    /\ peek_ret > 0
    /\ event.type = TB_EVENT_RESIZE
    /\ event.w > 0
    /\ event.h > 0
    /\ shadow_buffer = NULL

\* C25: a failed allocation of the new storage during a resize is fatal to
\* the process: the session does not go on in its loop with an absent
\* cache.
C25_AllocationFailureFatal == AllocationFailed => ~Serving

\* After a failed allocation a command was served, and answered with a
\* command error.
ServedWithoutCache ==
    /\ AllocationFailed
    /\ JustDispatched
    /\ LastDispatched = GetCellLine(0, 0)
    /\ sock_out[Len(sock_out)].bytes = InvalidCoordsBytes

\* What the first i calls of tb_log told the backend about the cell (x, y)
\* and about the clear attributes: cell is <<>> while no call made since
\* the last resize has told it what (x, y) holds, else the one cell told
\* last: the cell of a tb_change_cell at (x, y), or after a tb_clear a space
\* with the clear attributes of the latest tb_set_clear_attributes.
RECURSIVE BackendAt(_, _, _)
BackendAt(i, x, y) ==
    IF i = 0 THEN [cell |-> <<>>, fg |-> TB_DEFAULT, bg |-> TB_DEFAULT]
    ELSE LET prev == BackendAt(i - 1, x, y)
             call == tb_log[i]
         IN  IF call[1] = "tb_set_clear_attributes"
             THEN [prev EXCEPT !.fg = call[2], !.bg = call[3]]
             ELSE IF i <= resize_mark THEN prev
             ELSE IF call[1] = "tb_clear"
             THEN [prev EXCEPT !.cell = <<Cell(SP, prev.fg, prev.bg)>>]
             ELSE IF call[1] = "tb_change_cell" /\ call[2] = x /\ call[3] = y
             THEN [prev EXCEPT !.cell = <<Cell(call[4], call[5], call[6])>>]
             ELSE prev

\* What the backend was last told that (x, y) holds.
BackendTold(x, y) == BackendAt(Len(tb_log), x, y).cell

\* The cell of the shadow buffer at (x, y) is the one the backend was told
\* last, if it was told one since the last resize.
CacheAgrees(x, y) ==
    BackendTold(x, y) # <<>>
      => shadow_buffer[ShadowIndex(shadow_buffer_width, x, y)] = BackendTold(x, y)[1]

\* C26: after a resize and any clear, print, change_cell and
\* set_clear_attributes, the cached cell of every coordinate inside the
\* cache is the cell the backend was last told to hold there.
C26_CacheMatchesBackend ==
    \A x \in 0..(shadow_buffer_width - 1), y \in 0..(shadow_buffer_height - 1) :
        CacheAgrees(x, y)

\* The same while the clear attributes are the default ones.
CacheMatchesBackendDefaultClear ==
    (\A i \in 1..Len(tb_log) :
        tb_log[i][1] = "tb_set_clear_attributes"
          => tb_log[i][2] = TB_DEFAULT /\ tb_log[i][3] = TB_DEFAULT)
    => C26_CacheMatchesBackend

(***************************************************************************)
(* What changes the dimensions of the shadow buffer                         *)
(***************************************************************************)

CacheDimensions == <<shadow_buffer_width, shadow_buffer_height>>

\* C27: the dimensions of the shadow buffer change only in the step that
\* polls a resize event; the dispatch of a command keeps them; and the
\* dispatch of a debug command whose event has the resize type writes its
\* EVENT line and leaves the dimensions and every cell as they are.
C27_OnlyPolledResize ==
    [][/\ CacheDimensions' # CacheDimensions
          => pc = "peek" /\ peek_ret' > 0 /\ event'.type = TB_EVENT_RESIZE
       /\ Dispatching => CacheDimensions' = CacheDimensions
       /\ \A c \in DebugCases :
            (c.given[1] = TB_EVENT_RESIZE /\ Dispatching /\ CurrentLine = DebugLine(c))
            => /\ AnsweredWith(c.line)
               /\ shadow_buffer' = shadow_buffer
               /\ CacheDimensions' = CacheDimensions]_vars

\* A cell was written, a debug resize event of another size was sent, and
\* the cell has been read back from a cache of the size it had.
C27_Witness ==
    \E c \in DebugCases :
       /\ c.given[1] = TB_EVENT_RESIZE
       /\ JustDispatched
       /\ dispatched = <<ChangeCellLine(0, 0, 65, 1, 2), DebugLine(c), GetCellLine(0, 0)>>
       /\ CacheDimensions = <<MaxW, MaxH>>
       /\ <<c.given[5], c.given[6]>> # CacheDimensions
       /\ shadow_buffer[0] = Cell(65, 1, 2)
       /\ Len(sock_out) >= 3
       /\ sock_out[Len(sock_out) - 1].bytes = c.line \o <<LF>>
       /\ sock_out[Len(sock_out)].bytes = OkCellBytes(0, 0, S(<<"A">>), 1, 2)

(***************************************************************************)
(* Lines without a command                                                  *)
(***************************************************************************)

\* The bytes of a line other than its spaces.
WithoutSpaces(line) == SelectSeq(line, LAMBDA b : b # SP)

\* The line is empty, or holds only spaces, or only a carriage return once
\* its spaces are taken away.
IsBlank(line) == WithoutSpaces(line) \in {<<>>, <<CR>>}

\* The dispatch writes nothing, calls nothing, keeps the shadow buffer and
\* goes on with the next line.
Ignored ==
    /\ sock_out' = sock_out
    /\ tb_log' = tb_log
    /\ shadow_buffer' = shadow_buffer
    /\ CacheDimensions' = CacheDimensions
    /\ keep_running' = keep_running
    /\ pc' = "lines"
    /\ line_start' = NewlinePos + 1

\* C28: the dispatch of a line that is empty, or holds only spaces, or only
\* a carriage return once the spaces are taken away, writes no response,
\* changes neither the backend nor the cache, and the session goes on.
C28_EmptyLine ==
    [][(Dispatching /\ IsBlank(CurrentLine)) => Ignored]_vars

\* The same for the lines whose carriage return, if any, is their last
\* byte.
EmptyLineTrailingCR ==
    [][(Dispatching /\ WithoutSpaces(StripCR(CurrentLine)) = <<>>)
       => Ignored]_vars

\* The queries around a line without a token were answered, and only they.
AnsweredAroundBlank ==
    /\ JustDispatched
    /\ dispatched = <<Cmd_width, <<SP, CR>>, Cmd_height>>
    /\ Len(Responses) = 2
    /\ IsPrefix(Txt_OK_WIDTH, Responses[1].bytes)
    /\ IsPrefix(Txt_OK_HEIGHT, Responses[2].bytes)

=============================================================================
